---- MODULE Spec2Model ----
(***************************************************************************)
(* SmartOps MVP: invoice batch reconciliation.                             *)
(*                                                                         *)
(* The repository has two batch runners, and a behaviour of the model uses *)
(* one of them for all its runs.                                           *)
(*                                                                         *)
(* src/src/run_batch_prod.py (run_batch_prod): a run loads the PO register *)
(* and the persisted invoice history, extracts one result row per PDF in   *)
(* glob order, flags duplicates (inside the batch, then against the        *)
(* history), consumes PO budget for the rows still VALID, and rewrites the *)
(* history file.  Runs follow one another and share the history file.      *)
(*                                                                         *)
(* src/src/run_batch.py (run_batch): a run loads the PO register collapsed *)
(* to one row per PO number, lists the PDFs, sorts them by name and passes *)
(* each through process_invoice, which extracts, classifies and consumes   *)
(* budget in one go.  It keeps no history.  Its adapter reads the keys     *)
(* PO_Number, Invoice_Number, Invoice_Amount from the extractor's dict;    *)
(* src/src/extract_invoice.py returns po_number, invoice_number,           *)
(* invoice_amount.  The model runs run_batch with either extractor: the    *)
(* one of src/ and one keyed as the import comment of run_batch.py says.   *)
(*                                                                         *)
(* Amounts are integers (the code uses floats; rounding is not modelled).  *)
(* The history workbook is taken to hold the strings that were written to  *)
(* it: a file that cannot be read, and any retyping of cells by the        *)
(* spreadsheet reader, are outside the model.                              *)
(***************************************************************************)
EXTENDS Integers, Sequences, FiniteSets, TLC

----------------------------------------------------------------------------
(* Bounds of the model *)

\* most PDFs in the invoice directory of one run
MaxDocs == 2

\* most runs in a behaviour
MaxRuns == 2

----------------------------------------------------------------------------
(* Optional values: Python None is the empty tuple, a value v is <<v>> *)

None == << >>

Some(v) == << v >>

IsNone(o) == o = << >>

\* Python truthiness of an optional string: None and "" are falsy
Truthy(o) == o # << >> /\ o[1] # ""

----------------------------------------------------------------------------
(* Inputs: what the extractor can return for a PDF, and the PO registers *)

PoNumbers == {"PO-1", "PO-2", "PO-9"}

InvoiceNumbers == {"INV-001", "INV-002"}

Amounts == {0, 500, 600}

Option(S) == {None} \cup {Some(v) : v \in S}

\* what _extract_fields_from_text finds in a text: po, inv, amt
ExtractedFields ==
    [po_number : Option(PoNumbers),
     invoice_number : Option(InvoiceNumbers),
     invoice_amount : Option(Amounts)]

NoFields == [po_number |-> None, invoice_number |-> None, invoice_amount |-> None]

\* _clean_text on the texts of the model: a text of blanks and line ends
\* becomes empty
clean_text(text) == IF text = " \n " THEN "" ELSE text

\* a PDF of the invoice directory.  raises: the extractor fails on it in a
\* way it does not catch; text: what pdfminer returns for it, "unreadable"
\* when pdfminer raises; fields: what the patterns find in the cleaned text
Documents ==
    {[raises |-> TRUE, text |-> "INVOICE ...", fields |-> NoFields]}
      \cup {[raises |-> FALSE, text |-> t, fields |-> NoFields] :
                t \in {"unreadable", "", " \n "}}
      \cup {[raises |-> FALSE, text |-> "INVOICE ...", fields |-> f] :
                f \in ExtractedFields}

FileNames == <<"a.pdf", "b.pdf", "c.pdf", "d.pdf">>

\* position of a file name in ascending order of names
name_rank(name) == CHOOSE n \in 1..Len(FileNames) : FileNames[n] = name

\* the file of the invoice directory that holds document doc under name n
Pdf(n, doc) ==
    [file_name |-> FileNames[n], raises |-> doc.raises, text |-> doc.text,
     fields |-> doc.fields]

\* the key spelling of the extractor's dict: lower case as returned by
\* src/src/extract_invoice.py, or PO_Number, Invoice_Number, Invoice_Amount
ExtractorKeys == {"lower", "upper"}

Runners == {"run_batch_prod", "run_batch"}

\* str.strip on the cell values of the model: a padded PO cell of the register
Strip(s) == IF s = " PO-2 " THEN "PO-2" ELSE s

PoRow(po, total, already, remaining) ==
    [PO_Number |-> po, Total_PO_Value |-> total,
     Amount_Already_Invoiced |-> already, Remaining_Budget |-> remaining]

\* PO register files (rows as read by pd.read_excel).  PO-9 is in no register.
\* RegisterA gives a Remaining_Budget for PO-2 that is not total - already.
RegisterA == << PoRow("PO-1", 1000, 0, 0), PoRow(" PO-2 ", 600, 100, 550) >>

\* RegisterB has two rows for PO-1 and a PO-2 that is overdrawn already.
RegisterB == << PoRow("PO-1", 1000, 200, 0), PoRow("PO-1", 1000, 300, 0),
                PoRow("PO-2", 500, 700, -200) >>

Registers == {RegisterA, RegisterB}

----------------------------------------------------------------------------
(* State *)

VARIABLES
    runner,       \* the entry point the runs go through
    extractor,    \* the key spelling of the extractor's dict
    register,     \* the PO register file given to the runs
    directory,    \* the invoice directory of the current run, in glob order
    history,      \* data/invoice_history.xlsx, << >> while it does not exist
    batch_id,     \* number of runs started; identifies the current run
    pc,           \* where the current run is: idle, extract, budget (run_batch_prod),
                  \* list, process (run_batch), done, crashed
    po_df,        \* the run's PO register frame
    history_df,   \* the history as loaded at the start of the run
    results,      \* the run's result rows (results, then batch_df)
    idx,          \* loop position in the extraction loop and in the budget loop
    same_batch,   \* the run was started on the directory of the run before it
    seen_keys,    \* run_batch: the (po_number, invoice_number) pairs seen in the run
    valid_log,    \* run_batch_prod: per finished run, the invoice numbers its
                  \* report shows VALID
    amount_text,  \* the string handed to _parse_amount and to safe_float
    amount_out,   \* what the two return for it, << >> before the calls
    pdf_in,       \* the PDF handed to the extractor: what pdfminer and the
                  \* patterns make of it
    pdf_out,      \* the extractor's outcome for it, << >> before the call
    other_run     \* a second run of run_batch_prod on the same history file

\* the variables of the function calls and of the second run
xvars == << amount_text, amount_out, pdf_in, pdf_out, other_run >>

vars == << runner, extractor, register, directory, history, batch_id, pc, po_df,
           history_df, results, idx, same_batch, seen_keys, valid_log, xvars >>

\* no function call is under way and no second run exists
Quiet ==
    /\ amount_text = << >>
    /\ amount_out = << >>
    /\ pdf_in = << >>
    /\ pdf_out = << >>
    /\ other_run = << >>

----------------------------------------------------------------------------
(* The extractor, src/src/extract_invoice.py *)

\* extract_invoice_fields without the try around pdfminer's extract_text
extract_invoice_dict_uncaught(pdf) ==
    IF pdf.raises \/ pdf.text = "unreadable" THEN [raised |-> TRUE, fields |-> NoFields]
    ELSE IF clean_text(pdf.text) = "" THEN [raised |-> FALSE, fields |-> NoFields]
    ELSE [raised |-> FALSE, fields |-> pdf.fields]

\* extract_invoice_fields: the dict for a PDF, or an exception.  A failure of
\* pdfminer is caught and gives the dict of an empty text.
extract_invoice_dict(pdf) ==
    IF pdf.raises THEN [raised |-> TRUE, fields |-> NoFields]
    ELSE IF pdf.text = "unreadable" THEN [raised |-> FALSE, fields |-> NoFields]
    ELSE IF clean_text(pdf.text) = "" THEN [raised |-> FALSE, fields |-> NoFields]
    ELSE [raised |-> FALSE, fields |-> pdf.fields]

\* dict.get on the extractor's dict: the value when the dict is keyed in the
\* spelling asked for, None otherwise
dict_get(fields, keys, spelling, field) ==
    IF keys = spelling THEN fields[field] ELSE None

----------------------------------------------------------------------------
(* Helpers of run_batch_prod.py *)

\* _normalize_str_series on one optional cell: fillna(""), astype(str), strip
normalize_str(o) == IF o = << >> THEN "" ELSE Strip(o[1])

\* a run that starts from an empty history whatever the file holds
load_history_ignores_file(file) == << >>

\* _load_history: the file's rows with invoice_number and po_number stripped;
\* an empty frame when the file does not exist
load_history(file) ==
    [i \in 1..Len(file) |->
        [file[i] EXCEPT !.invoice_number = Strip(@), !.po_number = Strip(@)]]

\* drop_duplicates(subset=["invoice_number"], keep="last")
RECURSIVE drop_duplicates_keep_last(_)
drop_duplicates_keep_last(rows) ==
    IF rows = << >> THEN << >>
    ELSE LET rest == drop_duplicates_keep_last(Tail(rows))
         IN IF \E i \in 1..Len(rest) : rest[i].invoice_number = Head(rows).invoice_number
            THEN rest
            ELSE << Head(rows) >> \o rest

\* drop_duplicates(subset=["invoice_number"], keep="first")
RECURSIVE drop_duplicates(_)
drop_duplicates(rows) ==
    IF rows = << >> THEN << >>
    ELSE LET init == drop_duplicates(SubSeq(rows, 1, Len(rows) - 1))
             last == rows[Len(rows)]
         IN IF \E i \in 1..Len(init) : init[i].invoice_number = last.invoice_number
            THEN init
            ELSE Append(init, last)

\* the history rewritten from the new rows alone, without the concat
append_to_history_overwrites(existing, new_rows) ==
    LET stripped == [i \in 1..Len(new_rows) |->
                        [new_rows[i] EXCEPT !.invoice_number = Strip(@)]]
        kept == SelectSeq(stripped, LAMBDA r : r.invoice_number # "")
    IN drop_duplicates(kept)

\* _append_to_history: concat, drop rows with an empty invoice_number, keep
\* the first row of each invoice_number
append_to_history(existing, new_rows) ==
    LET combined == IF existing = << >> THEN new_rows ELSE existing \o new_rows
        stripped == [i \in 1..Len(combined) |->
                        [combined[i] EXCEPT !.invoice_number = Strip(@)]]
        kept == SelectSeq(stripped, LAMBDA r : r.invoice_number # "")
    IN drop_duplicates(kept)

\* the column names of a register sheet (every row of a sheet has the same)
columns(rows) == DOMAIN rows[1]

\* a cell of a register row; a column _ensure_po_columns had to create holds 0.0
cell(row, col) == IF col \in DOMAIN row THEN row[col] ELSE 0

\* the derivation applied to every row, overwriting what the register gives
ensure_po_columns_always_derives(rows) ==
    [i \in 1..Len(rows) |->
        [rows[i] EXCEPT !.PO_Number = Strip(@),
                        !.Remaining_Budget =
                            rows[i].Total_PO_Value - rows[i].Amount_Already_Invoiced]]

\* _ensure_po_columns, the typing and the derivation of Remaining_Budget:
\* a zero Remaining_Budget with a positive total becomes total - already
ensure_po_columns(rows) ==
    [i \in 1..Len(rows) |->
        LET r == PoRow(Strip(rows[i].PO_Number),
                       cell(rows[i], "Total_PO_Value"),
                       cell(rows[i], "Amount_Already_Invoiced"),
                       cell(rows[i], "Remaining_Budget"))
        IN IF r.Remaining_Budget = 0 /\ r.Total_PO_Value > 0
           THEN [r EXCEPT !.Remaining_Budget =
                              r.Total_PO_Value - r.Amount_Already_Invoiced]
           ELSE r]

\* the set built from the po_number column instead of invoice_number
history_inv_set_by_po(hdf) == {Strip(hdf[i].po_number) : i \in 1..Len(hdf)}

\* history_inv_set
history_inv_set(hdf) == {Strip(hdf[i].invoice_number) : i \in 1..Len(hdf)}

\* the status an extracted row starts with
initial_status(f) ==
    IF ~Truthy(f.invoice_number) THEN
        [status |-> "NEEDS_REVIEW", reason |-> "Invoice number missing"]
    ELSE IF ~Truthy(f.po_number) THEN
        [status |-> "NEEDS_REVIEW", reason |-> "PO number missing"]
    ELSE IF f.invoice_amount = << >> THEN
        [status |-> "NEEDS_REVIEW", reason |-> "Invoice amount missing"]
    ELSE [status |-> "VALID", reason |-> ""]

\* the result row with a failed extraction reported like a missing number
result_row_hides_error(pdf, keys, bid) ==
    [file_name |-> pdf.file_name, po_number |-> None, invoice_number |-> None,
     invoice_amount |-> None, status |-> "NEEDS_REVIEW",
     reason |-> "Invoice number missing", batch_id |-> bid,
     remaining_before |-> None, remaining_after |-> None, po_row_index |-> None]

\* the result row appended for one PDF
result_row(pdf, keys, bid) ==
    LET d == extract_invoice_dict(pdf)
        f == [po_number |-> dict_get(d.fields, keys, "lower", "po_number"),
              invoice_number |-> dict_get(d.fields, keys, "lower", "invoice_number"),
              invoice_amount |-> dict_get(d.fields, keys, "lower", "invoice_amount")]
    IN IF d.raised THEN
           [file_name |-> pdf.file_name, po_number |-> None, invoice_number |-> None,
            invoice_amount |-> None, status |-> "ERROR",
            reason |-> "Extraction error", batch_id |-> bid,
            remaining_before |-> None, remaining_after |-> None,
            po_row_index |-> None]
       ELSE
           [file_name |-> pdf.file_name, po_number |-> f.po_number,
            invoice_number |-> f.invoice_number,
            invoice_amount |-> f.invoice_amount,
            status |-> initial_status(f).status,
            reason |-> initial_status(f).reason, batch_id |-> bid,
            remaining_before |-> None, remaining_after |-> None,
            po_row_index |-> None]

\* inv_series
inv_series(rows) == [i \in 1..Len(rows) |-> normalize_str(rows[i].invoice_number)]

\* the batch mask of duplicated(keep="first"): later copies only
dup_batch_mask_keep_first(rows) ==
    [i \in 1..Len(rows) |->
        /\ normalize_str(rows[i].invoice_number) # ""
        /\ \E j \in 1..(i - 1) :
              normalize_str(rows[j].invoice_number) = normalize_str(rows[i].invoice_number)]

\* the batch mask keyed on the pair (po_number, invoice_number)
dup_batch_mask_po_inv(rows) ==
    [i \in 1..Len(rows) |->
        /\ normalize_str(rows[i].invoice_number) # ""
        /\ \E j \in 1..Len(rows) :
              /\ j # i
              /\ normalize_str(rows[j].invoice_number) = normalize_str(rows[i].invoice_number)
              /\ rows[j].po_number = rows[i].po_number]

\* the batch mask without the test for an empty invoice number
dup_batch_mask_with_empty(rows) ==
    [i \in 1..Len(rows) |->
        \E j \in 1..Len(rows) :
            /\ j # i
            /\ normalize_str(rows[j].invoice_number) = normalize_str(rows[i].invoice_number)]

\* inv_series.ne("") & inv_series.duplicated(keep=False)
dup_batch_mask(rows) ==
    [i \in 1..Len(rows) |->
        /\ inv_series(rows)[i] # ""
        /\ \E j \in 1..Len(rows) : j # i /\ inv_series(rows)[j] = inv_series(rows)[i]]

\* the history mask without the exclusion of in-batch duplicates
dup_hist_mask_no_exclusion(rows, hdf) ==
    [i \in 1..Len(rows) |->
        /\ normalize_str(rows[i].invoice_number) # ""
        /\ normalize_str(rows[i].invoice_number) \in {hdf[k].invoice_number : k \in 1..Len(hdf)}]

\* inv_series.ne("") & inv_series.isin(history_inv_set) & ~dup_batch_mask
dup_hist_mask(rows, hdf) ==
    [i \in 1..Len(rows) |->
        /\ inv_series(rows)[i] # ""
        /\ inv_series(rows)[i] \in history_inv_set(hdf)
        /\ ~dup_batch_mask(rows)[i]]

\* duplicate detection that removes the flagged rows from the batch frame
detect_duplicates_drops_copies(rows, hdf) ==
    LET kept == {i \in 1..Len(rows) :
                    ~dup_hist_mask(rows, hdf)[i] /\ ~dup_batch_mask(rows)[i]}
        nth(n) == CHOOSE i \in kept : Cardinality({k \in kept : k < i}) = n - 1
    IN [n \in 1..Cardinality(kept) |->
          [rows[nth(n)] EXCEPT !.po_number = normalize_str(@)]]

\* the batch frame after duplicate detection, with po_number normalized
detect_duplicates(rows, hdf) ==
    [i \in 1..Len(rows) |->
        LET r == [rows[i] EXCEPT !.po_number = normalize_str(@)]
        IN IF dup_hist_mask(rows, hdf)[i] THEN
               [r EXCEPT !.status = "DUPLICATE_HISTORY",
                         !.reason = "Invoice already processed in previous batch"]
           ELSE IF dup_batch_mask(rows)[i] THEN
               [r EXCEPT !.status = "DUPLICATE",
                         !.reason = "Duplicate invoice_number in this batch"]
           ELSE r]

\* the lookup that takes every register row for a match
matches_unchecked(df, po) == 1..Len(df)

\* indices of the register rows of a PO number: po_df[po_df["PO_Number"] == po]
matches(df, po) == {k \in 1..Len(df) : df[k].PO_Number = po}

Min(S) == CHOOSE x \in S : \A y \in S : x <= y

\* float(invoice_amount) if invoice_amount is not None else 0.0
inv_amt_of(row) == IF row.invoice_amount = << >> THEN 0 ELSE row.invoice_amount[1]

\* the check that compares against a balance only when there is one left
overbudget_skips_negative(inv_amt, remaining_before) ==
    remaining_before >= 0 /\ inv_amt > remaining_before

\* the comparison with its operands swapped
overbudget_swapped(inv_amt, remaining_before) == remaining_before > inv_amt

\* Overbudget protection
overbudget(inv_amt, remaining_before) == inv_amt > remaining_before

\* the register row charged for a PO number: matches.index[0]
po_index_of(df, po) == Min(matches(df, po))

\* the update without the write to Remaining_Budget
apply_update_stale(df, k, inv_amt) ==
    [df EXCEPT ![k].Amount_Already_Invoiced = @ + inv_amt]

\* the update without the write to Amount_Already_Invoiced
apply_update_no_already(df, k, inv_amt) ==
    [df EXCEPT ![k].Remaining_Budget = @ - inv_amt]

\* Apply real update
apply_update(df, k, inv_amt) ==
    [df EXCEPT ![k].Amount_Already_Invoiced = @ + inv_amt,
               ![k].Remaining_Budget = @ - inv_amt]

\* the history rows taken from every row that is not NEEDS_REVIEW
hist_rows_wrong_filter(rows) ==
    LET kept == SelectSeq(rows, LAMBDA r : r.status # "NEEDS_REVIEW")
    IN [i \in 1..Len(kept) |->
          [invoice_number |-> normalize_str(kept[i].invoice_number),
           po_number |-> kept[i].po_number,
           batch_id |-> kept[i].batch_id]]

\* the rows appended to the history: the VALID rows of the batch.  Of the six
\* columns the model keeps the key, the PO number and the batch; amount, file
\* name and timestamp are copied along by the code and never read again.
hist_rows(rows) ==
    LET valid == SelectSeq(rows, LAMBDA r : r.status = "VALID")
    IN [i \in 1..Len(valid) |->
          [invoice_number |-> normalize_str(valid[i].invoice_number),
           po_number |-> valid[i].po_number,
           batch_id |-> valid[i].batch_id]]

----------------------------------------------------------------------------
(* Helpers of run_batch.py *)

\* PO_REQUIRED_COLS
PO_REQUIRED_COLS == {"PO_Number", "Total_PO_Value", "Amount_Already_Invoiced"}

\* _normalize_po: None and blank give None, otherwise the stripped string
\* (no cell of the model ends in ".0")
normalize_po(x) ==
    IF x = << >> THEN None
    ELSE IF Strip(x[1]) = "" THEN None
    ELSE Some(Strip(x[1]))

\* safe_float on the amounts of the model, which are numbers already:
\* None stays None, a number is read back from its own digits
safe_float(x) == x

\* the adapter extract_invoice_fields: (po_number, invoice_number,
\* invoice_amount) read from the keys PO_Number, Invoice_Number, Invoice_Amount
extract_invoice_fields(pdf, keys) ==
    LET data == extract_invoice_dict(pdf)
        po == dict_get(data.fields, keys, "upper", "po_number")
        inv_no == dict_get(data.fields, keys, "upper", "invoice_number")
        amt == dict_get(data.fields, keys, "upper", "invoice_amount")
    IN [raised |-> data.raised,
        po_number |-> normalize_po(po),
        invoice_number |-> IF inv_no = << >> \/ Strip(inv_no[1]) = ""
                           THEN None ELSE Some(Strip(inv_no[1])),
        invoice_amount |-> safe_float(amt)]

\* PO numbers in the order groupby sorts them
SortedPoNumbers == <<"PO-1", "PO-2", "PO-9">>

Max(S) == CHOOSE x \in S : \A y \in S : x >= y

RECURSIVE sum_already(_, _)
\* sum of Amount_Already_Invoiced over the rows of a PO number
sum_already(rows, po) ==
    IF rows = << >> THEN 0
    ELSE sum_already(Tail(rows), po)
           + (IF normalize_po(Some(Head(rows).PO_Number)) = Some(po)
              THEN Head(rows).Amount_Already_Invoiced ELSE 0)

\* the rows of a register frame whose normalized PO number is po
rows_of(rows, po) ==
    {k \in 1..Len(rows) : normalize_po(Some(rows[k].PO_Number)) = Some(po)}

\* the register without the collapse to one row per PO number
load_po_register_ungrouped(rows) ==
    [k \in 1..Len(rows) |->
        PoRow(Strip(rows[k].PO_Number), rows[k].Total_PO_Value,
              rows[k].Amount_Already_Invoiced,
              rows[k].Total_PO_Value - rows[k].Amount_Already_Invoiced)]

\* load_po_register: one row per PO number, total = max, already = sum,
\* Remaining_Budget = total - already; the file's Remaining_Budget is not read
load_po_register(rows) ==
    LET present == SelectSeq(SortedPoNumbers, LAMBDA po : rows_of(rows, po) # {})
    IN [g \in 1..Len(present) |->
          LET po == present[g]
              total == Max({rows[k].Total_PO_Value : k \in rows_of(rows, po)})
              already == sum_already(rows, po)
          IN PoRow(po, total, already, total - already)]

\* sorted(invoice_dir.glob("*.pdf")): the files in ascending order of name
sorted_pdfs(dir) ==
    SortSeq(dir, LAMBDA x, y : name_rank(x.file_name) < name_rank(y.file_name))

\* InvoiceResult
InvoiceResult(bid, pdf, po, inv, amt, status, reason, budget, before, after) ==
    [batch_id |-> bid, file_name |-> pdf.file_name, po_number |-> po,
     invoice_number |-> inv, invoice_amount |-> amt, status |-> status,
     reason |-> reason, po_budget |-> budget, remaining_before |-> before,
     remaining_after |-> after]

\* the row of the collapsed register frame with index label po
at_po(df, po) == CHOOSE k \in 1..Len(df) : df[k].PO_Number = po

\* the update that lowers the remaining budget and forgets the invoiced sum
update_running_balance_remaining_only(df, k, amt) ==
    [df EXCEPT ![k].Remaining_Budget = df[k].Remaining_Budget - amt]

\* VALID: update running balance
update_running_balance(df, k, amt) ==
    [df EXCEPT ![k].Amount_Already_Invoiced = @ + amt,
               ![k].Remaining_Budget = df[k].Remaining_Budget - amt]

\* a process_invoice that lets a document past the duplicate check without
\* recording its key
seen_keys_add_skipped(seen, key) == seen

\* seen_keys.add(key), done right after the duplicate check
seen_keys_add(seen, key) == seen \cup {key}

\* process_invoice: the result for one PDF, the register frame and the seen
\* keys after it
process_invoice(df, pdf, seen, bid, keys) ==
    LET e == extract_invoice_fields(pdf, keys)
        po == e.po_number
        inv == e.invoice_number
        amt == e.invoice_amount
        key == << po, inv >>
        seen_after == IF Truthy(po) /\ Truthy(inv) THEN seen_keys_add(seen, key) ELSE seen
    IN IF e.raised THEN
           [res |-> InvoiceResult(bid, pdf, None, None, None, "INVALID",
                                  "Extractor error", None, None, None),
            df |-> df, seen |-> seen]
       ELSE IF ~Truthy(inv) THEN
           [res |-> InvoiceResult(bid, pdf, po, None, amt, "NEEDS_REVIEW",
                                  "Invoice number missing", None, None, None),
            df |-> df, seen |-> seen]
       ELSE IF Truthy(po) /\ Truthy(inv) /\ key \in seen THEN
           [res |-> InvoiceResult(bid, pdf, po, inv, amt, "INVALID",
                       "Duplicate invoice detected (same PO_Number + Invoice_Number)",
                       None, None, None),
            df |-> df, seen |-> seen]
       ELSE IF ~Truthy(po) THEN
           [res |-> InvoiceResult(bid, pdf, None, inv, amt, "INVALID",
                                  "PO missing", None, None, None),
            df |-> df, seen |-> seen_after]
       ELSE IF amt = << >> \/ amt[1] <= 0 THEN
           [res |-> InvoiceResult(bid, pdf, po, inv, amt, "INVALID",
                                  "Amount missing/zero or not parsed", None, None, None),
            df |-> df, seen |-> seen_after]
       ELSE IF matches(df, po[1]) = {} THEN
           [res |-> InvoiceResult(bid, pdf, po, inv, amt, "PO_NOT_FOUND",
                                  "PO not found in register", None, None, None),
            df |-> df, seen |-> seen_after]
       ELSE LET k == at_po(df, po[1])
                remaining_before == df[k].Remaining_Budget
                po_budget == df[k].Total_PO_Value
            IN IF amt[1] > remaining_before THEN
                   [res |-> InvoiceResult(bid, pdf, po, inv, amt, "OVERBUDGET",
                                          "Invoice exceeds Remaining_Budget",
                                          Some(po_budget), Some(remaining_before),
                                          Some(remaining_before)),
                    df |-> df, seen |-> seen_after]
               ELSE
                   [res |-> InvoiceResult(bid, pdf, po, inv, amt, "VALID", "OK",
                                          Some(po_budget), Some(remaining_before),
                                          Some(remaining_before - amt[1])),
                    df |-> update_running_balance(df, k, amt[1]),
                    seen |-> seen_after]

----------------------------------------------------------------------------
(* The run, step by step *)

Init ==
    /\ runner \in Runners
    /\ extractor \in ExtractorKeys
    /\ runner = "run_batch_prod" => extractor = "lower"
    /\ seen_keys = {}
    /\ register \in Registers
    /\ directory = << >>
    /\ history = << >>
    /\ batch_id = 0
    /\ pc = "idle"
    /\ po_df = << >>
    /\ history_df = << >>
    /\ results = << >>
    /\ idx = 1
    /\ same_batch = FALSE
    /\ valid_log = << >>
    /\ Quiet

\* run_batch_prod is called: the register and the history are loaded and
\* the result list starts empty.  The invoice directory is either the one of
\* the run before (rerun) or a new one, whose PDFs glob yields one by one.
StartRun(rerun) ==
    /\ runner = "run_batch_prod"
    /\ pc \in {"idle", "done", "crashed"}
    /\ batch_id < MaxRuns
    /\ rerun => pc = "done"
    /\ batch_id' = batch_id + 1
    /\ same_batch' = rerun
    /\ directory' = IF rerun THEN directory ELSE << >>
    /\ IF "PO_Number" \notin columns(register)
       THEN /\ pc' = "crashed"
            /\ po_df' = << >>
            /\ UNCHANGED history_df
       ELSE /\ pc' = "extract"
            /\ po_df' = ensure_po_columns(register)
            /\ history_df' = load_history(history)
    /\ results' = << >>
    /\ idx' = 1
    /\ UNCHANGED << xvars, runner, extractor, register, history, seen_keys, valid_log >>

\* the directory holds no file named FileNames[n] yet
unused_name(n) == \A i \in 1..Len(directory) : directory[i].file_name # FileNames[n]

\* one turn of the extraction loop: glob yields the next PDF, in whatever
\* order the file system lists them, and one result row is appended for it
ExtractInvoice(doc, n) ==
    /\ pc = "extract"
    /\ IF same_batch
       THEN idx <= Len(directory) /\ Pdf(n, doc) = directory[idx] /\ UNCHANGED directory
       ELSE idx <= MaxDocs /\ unused_name(n) /\ directory' = Append(directory, Pdf(n, doc))
    /\ results' = Append(results, result_row(Pdf(n, doc), extractor, batch_id))
    /\ idx' = idx + 1
    /\ UNCHANGED << xvars, runner, extractor, register, history, batch_id, pc, po_df,
                    history_df, same_batch, seen_keys, valid_log >>

\* glob is exhausted: duplicate detection on the batch frame.  With no PDF
\* the frame has no column and the later batch_df["status"] raises KeyError.
DuplicateDetection ==
    /\ pc = "extract"
    /\ same_batch => idx > Len(directory)
    /\ IF results = << >>
       THEN /\ pc' = "crashed"
            /\ UNCHANGED results
       ELSE /\ pc' = "budget"
            /\ results' = detect_duplicates(results, history_df)
    /\ idx' = 1
    /\ UNCHANGED << xvars, runner, extractor, register, directory, history, batch_id, po_df,
                    history_df, same_batch, seen_keys, valid_log >>

\* the test that lets an amount of zero through
invalid_po_or_amount_lets_zero(row) == row.po_number = "" \/ inv_amt_of(row) < 0

\* if not po_number or inv_amt <= 0
invalid_po_or_amount(row) == row.po_number = "" \/ inv_amt_of(row) <= 0

\* the row of the batch frame after its turn of the budget loop, and the
\* register frame after it
budget_step(df, row) ==
    IF row.status # "VALID" THEN [row |-> row, df |-> df]
    ELSE IF invalid_po_or_amount(row) THEN
        [row |-> [row EXCEPT !.status = "NEEDS_REVIEW",
                             !.reason = "Invalid PO number or invoice amount"],
         df |-> df]
    ELSE IF matches(df, row.po_number) = {} THEN
        [row |-> [row EXCEPT !.status = "PO_NOT_FOUND",
                             !.reason = "PO not found in register"],
         df |-> df]
    ELSE LET k == po_index_of(df, row.po_number)
             remaining_before == df[k].Remaining_Budget
             inv_amt == inv_amt_of(row)
         IN IF overbudget(inv_amt, remaining_before) THEN
                [row |-> [row EXCEPT !.status = "OVERBUDGET",
                                     !.reason = "Invoice exceeds Remaining_Budget",
                                     !.remaining_before = Some(remaining_before),
                                     !.remaining_after = Some(remaining_before),
                                     !.po_row_index = Some(k)],
                 df |-> df]
            ELSE
                [row |-> [row EXCEPT !.remaining_before = Some(remaining_before),
                                     !.remaining_after = Some(remaining_before - inv_amt),
                                     !.po_row_index = Some(k)],
                 df |-> apply_update(df, k, inv_amt)]

\* one turn of the budget loop
BudgetUpdate ==
    /\ pc = "budget"
    /\ idx <= Len(results)
    /\ results' = [results EXCEPT ![idx] = budget_step(po_df, results[idx]).row]
    /\ po_df' = budget_step(po_df, results[idx]).df
    /\ idx' = idx + 1
    /\ UNCHANGED << xvars, runner, extractor, register, directory, history, batch_id, pc,
                    history_df, same_batch, seen_keys, valid_log >>

\* the end of a run that writes the loaded history followed by every row of
\* the batch, whatever its status, without _append_to_history
UpdateHistoryConcatsBatch ==
    /\ pc = "budget"
    /\ idx > Len(results)
    /\ history' = history_df \o
                      [i \in 1..Len(results) |->
                          [invoice_number |-> normalize_str(results[i].invoice_number),
                           po_number |-> results[i].po_number,
                           batch_id |-> results[i].batch_id]]
    /\ valid_log' = Append(valid_log,
                           [i \in 1..Len(hist_rows(results)) |->
                               hist_rows(results)[i].invoice_number])
    /\ pc' = "done"
    /\ UNCHANGED << xvars, runner, extractor, register, directory, batch_id, po_df,
                    history_df, results, idx, same_batch, seen_keys >>

\* the end of a run that writes the workbook only when a row is VALID
UpdateHistoryOnlyWhenValid ==
    /\ pc = "budget"
    /\ idx > Len(results)
    /\ history' = IF hist_rows(results) # << >>
                  THEN append_to_history(history_df, hist_rows(results))
                  ELSE history
    /\ valid_log' = Append(valid_log,
                           [i \in 1..Len(hist_rows(results)) |->
                               hist_rows(results)[i].invoice_number])
    /\ pc' = IF hist_rows(results) # << >> THEN "done" ELSE "crashed"
    /\ UNCHANGED << xvars, runner, extractor, register, directory, batch_id, po_df,
                    history_df, results, idx, same_batch, seen_keys >>

\* after the budget loop: the history file is rewritten when a row is VALID,
\* and the workbook is written
UpdateHistory ==
    /\ pc = "budget"
    /\ idx > Len(results)
    /\ history' = IF hist_rows(results) # << >>
                  THEN append_to_history(history_df, hist_rows(results))
                  ELSE history
    /\ valid_log' = Append(valid_log,
                           [i \in 1..Len(hist_rows(results)) |->
                               hist_rows(results)[i].invoice_number])
    /\ pc' = "done"
    /\ UNCHANGED << xvars, runner, extractor, register, directory, batch_id, po_df,
                    history_df, results, idx, same_batch, seen_keys >>

\* run_batch is called on an invoice directory: the register is loaded and
\* collapsed.
StartRunBatch ==
    /\ runner = "run_batch"
    /\ pc \in {"idle", "done", "crashed"}
    /\ batch_id < MaxRuns
    /\ batch_id' = batch_id + 1
    /\ same_batch' = FALSE
    /\ directory' = << >>
    /\ IF PO_REQUIRED_COLS \subseteq columns(register)
       THEN /\ pc' = "list"
            /\ po_df' = load_po_register(register)
       ELSE /\ pc' = "crashed"
            /\ po_df' = << >>
    /\ results' = << >>
    /\ seen_keys' = {}
    /\ idx' = 1
    /\ UNCHANGED << xvars, runner, extractor, register, history, history_df, valid_log >>

\* glob yields one more PDF of the directory, in whatever order the file
\* system lists them
ListPdf(doc, n) ==
    /\ pc = "list"
    /\ Len(directory) < MaxDocs
    /\ unused_name(n)
    /\ directory' = Append(directory, Pdf(n, doc))
    /\ UNCHANGED << xvars, runner, extractor, register, history, batch_id, pc, po_df,
                    history_df, results, idx, same_batch, seen_keys, valid_log >>

\* a run_batch without the test for an empty list of PDFs
SortPdfsAcceptsNone ==
    /\ pc = "list"
    /\ pc' = "process"
    /\ UNCHANGED << xvars, runner, extractor, register, directory, history, batch_id, po_df,
                    history_df, results, idx, same_batch, seen_keys, valid_log >>

\* glob is exhausted: pdfs = sorted(...); no PDF raises FileNotFoundError
SortPdfs ==
    /\ pc = "list"
    /\ pc' = IF directory = << >> THEN "crashed" ELSE "process"
    /\ UNCHANGED << xvars, runner, extractor, register, directory, history, batch_id, po_df,
                    history_df, results, idx, same_batch, seen_keys, valid_log >>

\* one turn of the loop over the sorted PDFs
ProcessInvoice ==
    /\ pc = "process"
    /\ idx <= Len(directory)
    /\ LET out == process_invoice(po_df, sorted_pdfs(directory)[idx], seen_keys,
                                  batch_id, extractor)
       IN /\ results' = Append(results, out.res)
          /\ po_df' = out.df
          /\ seen_keys' = out.seen
    /\ idx' = idx + 1
    /\ UNCHANGED << xvars, runner, extractor, register, directory, history, batch_id, pc,
                    history_df, same_batch, valid_log >>

\* after the loop: the workbook is written
WriteWorkbook ==
    /\ pc = "process"
    /\ idx > Len(directory)
    /\ pc' = "done"
    /\ UNCHANGED << xvars, runner, extractor, register, directory, history, batch_id, po_df,
                    history_df, results, idx, same_batch, seen_keys, valid_log >>

Next ==
    \/ \E rerun \in BOOLEAN : StartRun(rerun)
    \/ \E doc \in Documents, n \in 1..MaxDocs : ExtractInvoice(doc, n)
    \/ DuplicateDetection
    \/ BudgetUpdate
    \/ UpdateHistory
    \/ StartRunBatch
    \/ \E doc \in Documents, n \in 1..MaxDocs : ListPdf(doc, n)
    \/ SortPdfs
    \/ ProcessInvoice
    \/ WriteWorkbook

Spec == Init /\ [][Next]_vars

----------------------------------------------------------------------------
(* Vocabulary of the properties *)

\* the runs go through run_batch_prod
Prod == runner = "run_batch_prod"

\* the register frame as it is right after loading
loaded == IF Prod THEN ensure_po_columns(register) ELSE load_po_register(register)

\* row i of the results is final as far as the budget is concerned: in
\* run_batch_prod it has had its turn of the budget loop, in run_batch it
\* has been returned by process_invoice
Processed(i) ==
    IF Prod THEN pc = "done" \/ (pc = "budget" /\ i < idx) ELSE i <= Len(results)

\* the batch frame of run_batch_prod exists (duplicate detection has run)
Framed == Prod /\ pc \in {"budget", "done"}

\* the PO number of row i as the budget check compares it
PoOf(i) == IF Prod THEN results[i].po_number ELSE normalize_str(results[i].po_number)

\* the PDF row i of the results was made from
PdfOf(i) == IF Prod THEN directory[i] ELSE sorted_pdfs(directory)[i]

\* row i reached the budget check: the check recorded the balance it saw
ReachedBudgetCheck(i) == Processed(i) /\ results[i].remaining_before # << >>

\* sum of the amounts of the rows before row i that ended VALID on PO number p
RECURSIVE ValidSumBefore(_, _)
ValidSumBefore(i, p) ==
    IF i <= 1 THEN 0
    ELSE ValidSumBefore(i - 1, p)
           + (IF results[i - 1].status = "VALID" /\ PoOf(i - 1) = p
              THEN results[i - 1].invoice_amount[1] ELSE 0)

\* the balance of PO number p the budget check of row i has to use
LiveBalance(i, p) ==
    loaded[Min({k \in 1..Len(loaded) : loaded[k].PO_Number = p})].Remaining_Budget
      - ValidSumBefore(i, p)

\* how often invoice number n was reported VALID by the finished runs
TimesValid(n) ==
    Cardinality({ri \in (1..Len(valid_log)) \X (1..MaxDocs + 1) :
                    ri[2] <= Len(valid_log[ri[1]]) /\ valid_log[ri[1]][ri[2]] = n})

----------------------------------------------------------------------------
(* Properties *)

\* C1: a PO record whose remaining budget is >= 0 after loading has a
\* remaining budget >= 0 after every processed invoice of the run.
RemainingStaysNonNegative ==
    \A k \in 1..Len(po_df) :
        loaded[k].Remaining_Budget >= 0 => po_df[k].Remaining_Budget >= 0

\* C1 witness: an invoice was accepted on a PO and a later one on the same PO
\* was stopped because it exceeds what is left.
RemainingStaysNonNegativeWitness ==
    /\ pc = "done"
    /\ \E i, j \in 1..Len(results) :
          /\ i < j
          /\ results[i].status = "VALID"
          /\ results[j].status = "OVERBUDGET"
          /\ results[i].po_number = results[j].po_number
          /\ results[j].invoice_amount[1] > results[j].remaining_before[1]
          /\ results[j].remaining_before[1] >= 0

BudgetCheckUsesLiveBalance ==
    /\ \A i \in 1..Len(results) :
          ReachedBudgetCheck(i) =>
              LET row == results[i]
                  live == LiveBalance(i, PoOf(i))
                  a == row.invoice_amount[1]
              IN /\ row.status \in {"VALID", "OVERBUDGET"}
                 /\ row.status = "OVERBUDGET" <=> a > live
                 /\ row.remaining_before = Some(live)
                 /\ row.status = "OVERBUDGET" => row.remaining_after = row.remaining_before
                 /\ row.status = "VALID" => row.remaining_after = Some(live - a)
    /\ \A x, y \in {500, 600} :
          ( /\ pc = "done"
            /\ Len(results) = 2
            /\ x # y
            /\ ReachedBudgetCheck(1) /\ ReachedBudgetCheck(2)
            /\ PoOf(1) = PoOf(2)
            /\ LiveBalance(1, PoOf(1)) = 1000
            /\ results[1].invoice_amount = Some(x)
            /\ results[2].invoice_amount = Some(y) )
          => /\ results[1].status = "VALID"
             /\ results[1].remaining_after = Some(1000 - x)
             /\ results[2].status = "OVERBUDGET"

\* C3 witness: 600 then 500 on a PO with 1000 left.
BudgetCheckUsesLiveBalanceWitness ==
    /\ pc = "done"
    /\ Len(results) = 2
    /\ results[1].po_number = "PO-1" /\ results[2].po_number = "PO-1"
    /\ results[1].invoice_amount = Some(600) /\ results[2].invoice_amount = Some(500)
    /\ results[1].remaining_before = Some(1000)
    /\ results[1].status = "VALID" /\ results[1].remaining_after = Some(400)
    /\ results[2].status = "OVERBUDGET" /\ results[2].remaining_after = Some(400)

\* the invoice number of row i as the duplicate detection compares it
InvOf(i) == normalize_str(results[i].invoice_number)

\* row i shares its non-empty invoice number with another row of the batch
CollidesInBatch(i) ==
    InvOf(i) # "" /\ \E j \in 1..Len(results) : j # i /\ InvOf(j) = InvOf(i)

\* the invoice numbers of the history loaded at the start of the run
LoadedHistoryNumbers == {history_df[k].invoice_number : k \in 1..Len(history_df)}

\* C4 as stated: of the documents of one run that yield the same invoice
\* number, the first seen keeps its normal classification and every later
\* one is DUPLICATE.
FirstSeenKeepsClassification ==
    Framed =>
      \A i, j \in 1..Len(results) :
          ( /\ i < j
            /\ InvOf(i) # ""
            /\ InvOf(i) = InvOf(j)
            /\ \A k \in 1..(i - 1) : InvOf(k) # InvOf(i) )
          => /\ results[j].status = "DUPLICATE"
             /\ results[i].status # "DUPLICATE"

\* C4 amended: every document of a run whose non-empty invoice number is
\* also that of another document of the run is DUPLICATE, the first seen
\* included, and stays so to the end of the run; a document whose invoice
\* number is alone in the run is never DUPLICATE.
EveryCopyIsDuplicate ==
    Framed =>
      \A i \in 1..Len(results) :
          results[i].status = "DUPLICATE" <=> CollidesInBatch(i)

\* C4 witness: two documents with one invoice number at the end of a first
\* run; the first seen alone would have been payable, and both are DUPLICATE.
EveryCopyIsDuplicateWitness ==
    /\ pc = "done"
    /\ Len(results) = 2
    /\ history_df = << >>
    /\ InvOf(1) = "INV-001" /\ InvOf(2) = "INV-001"
    /\ results[1].po_number = "PO-1" /\ results[1].invoice_amount = Some(600)
    /\ loaded[1].Remaining_Budget = 1000
    /\ results[1].status = "DUPLICATE" /\ results[2].status = "DUPLICATE"

EarlierReports ==
    IF pc = "done" THEN SubSeq(valid_log, 1, Len(valid_log) - 1) ELSE valid_log

\* the invoice numbers an earlier run reported VALID
ValidInEarlierRun ==
    UNION {{EarlierReports[r][k] : k \in 1..Len(EarlierReports[r])} :
              r \in 1..Len(EarlierReports)}

RerunLeavesHistoryUnchanged ==
    (pc = "done" /\ batch_id = 2 /\ same_batch) =>
      /\ history = history_df
      /\ valid_log[2] = << >>
      /\ \A i \in 1..Len(results) :
            InvOf(i) \in ValidInEarlierRun => results[i].status = "DUPLICATE_HISTORY"

\* the step is the turn of row idx: in the budget loop of run_batch_prod, or
\* the call of process_invoice in run_batch.  The row it leaves is results'[idx].
BudgetTurn ==
    \/ pc = "budget" /\ idx <= Len(results) /\ idx' = idx + 1
    \/ pc = "process" /\ idx <= Len(directory) /\ idx' = idx + 1

\* C8: the turn that leaves a row VALID with amount a on PO p adds a to the
\* amount already invoiced of one register record of p, takes a off its
\* remaining budget, records remaining_before and remaining_after =
\* remaining_before - a on the row, and changes no other register record.
ValidCommitEffect ==
    [][ (BudgetTurn /\ results'[idx].status = "VALID") =>
          LET a == results'[idx].invoice_amount[1]
              p == IF Prod THEN results'[idx].po_number ELSE results'[idx].po_number[1]
          IN /\ a > 0
             /\ Len(po_df') = Len(po_df)
             /\ \E k \in 1..Len(po_df) :
                   /\ po_df[k].PO_Number = p
                   /\ po_df'[k].PO_Number = p
                   /\ po_df'[k].Total_PO_Value = po_df[k].Total_PO_Value
                   /\ po_df'[k].Amount_Already_Invoiced =
                          po_df[k].Amount_Already_Invoiced + a
                   /\ po_df'[k].Remaining_Budget = po_df[k].Remaining_Budget - a
                   /\ results'[idx].remaining_before = Some(po_df[k].Remaining_Budget)
                   /\ results'[idx].remaining_after = Some(po_df[k].Remaining_Budget - a)
                   /\ \A m \in 1..Len(po_df) : m # k => po_df'[m] = po_df[m]
      ]_vars

\* C8 witness: an invoice of 600 has just been accepted on PO-1 while the
\* register also holds a record of PO-2.
ValidCommitEffectWitness ==
    /\ pc = "budget"
    /\ idx = 2
    /\ results[1].status = "VALID"
    /\ results[1].po_number = "PO-1"
    /\ results[1].invoice_amount = Some(600)
    /\ results[1].remaining_after = Some(400)
    /\ po_df[1].Amount_Already_Invoiced = 600
    /\ po_df[2].PO_Number = "PO-2"

\* C9: only accepted invoices change state.  The register frame changes only
\* when it is loaded and in the budget turn of a row that ends VALID; the
\* history file changes only by the rows of the batch that ended VALID: what
\* was in it stays, and every invoice number added is that of a VALID row.
OnlyValidRowsChangeState ==
    [][ /\ po_df' # po_df =>
              \/ pc \in {"idle", "done", "crashed"}
              \/ BudgetTurn /\ results'[idx].status = "VALID"
        /\ (BudgetTurn /\ results'[idx].status # "VALID") => po_df' = po_df
        /\ history' # history =>
              /\ pc = "budget" /\ pc' = "done"
              /\ \A h \in 1..Len(history') :
                    \/ h <= Len(history) /\ history'[h] = history[h]
                    \/ \E i \in 1..Len(results) :
                          /\ results[i].status = "VALID"
                          /\ InvOf(i) = history'[h].invoice_number
                          /\ InvOf(i) \notin LoadedHistoryNumbers
      ]_vars

\* C9 witness: a run ended with an OVERBUDGET row and a VALID row; the history
\* holds the VALID one only.
OnlyValidRowsChangeStateWitness ==
    /\ pc = "done"
    /\ Len(results) = 2
    /\ results[1].status = "OVERBUDGET"
    /\ results[2].status = "VALID"
    /\ Len(history) = 1
    /\ history[1].invoice_number = InvOf(2)
    /\ InvOf(1) # InvOf(2)

\* C10: a document whose extraction succeeded without an invoice number is
\* NEEDS_REVIEW from its extraction to the end of the run, whatever its PO
\* number, its amount and the history; it is never charged to a budget, never
\* marked a duplicate, and no empty invoice number enters the history or the
\* VALID rows of a report.
MissingInvoiceNumberNeedsReview ==
    /\ \A i \in 1..Len(results) :
          (~PdfOf(i).raises /\ ~Truthy(PdfOf(i).fields.invoice_number))
          => /\ results[i].status = "NEEDS_REVIEW"
             /\ results[i].reason = "Invoice number missing"
             /\ results[i].remaining_before = << >>
             /\ Prod => results[i].po_row_index = << >>
    /\ \A h \in 1..Len(history) : history[h].invoice_number # ""
    /\ "" \notin ValidInEarlierRun

\* C10 witness: two documents without invoice number, both with a registered
\* PO and a payable amount, at the end of a run that found a history.
MissingInvoiceNumberNeedsReviewWitness ==
    /\ pc = "done"
    /\ Len(results) = 2
    /\ history_df # << >>
    /\ \A i \in 1..2 :
          /\ ~directory[i].raises
          /\ directory[i].fields.invoice_number = None
          /\ directory[i].fields.po_number = Some("PO-1")
          /\ directory[i].fields.invoice_amount = Some(500)
          /\ results[i].status = "NEEDS_REVIEW"

\* the extraction of the PDF behind row i failed in a way the extractor does
\* not catch
ExtractionFailed(i) == PdfOf(i).raises

\* C11 as stated: a document whose extraction fails unexpectedly gets a row
\* with status ERROR.
ExtractionFailureGivesError ==
    \A i \in 1..Len(results) : ExtractionFailed(i) => results[i].status = "ERROR"

\* C11 amended: a document whose extraction fails unexpectedly gets one row,
\* with no field, status ERROR in run_batch_prod and status INVALID in
\* run_batch; the row keeps that status to the end of the run, its turn
\* changes no register record, no seen key and no history record, and the run
\* goes on: it ends with one classified row for every document.
ExtractionFailureIsIsolated ==
    [][ /\ \A i \in 1..Len(results') :
              ExtractionFailed(i)' =>
                 /\ results'[i].status = (IF Prod THEN "ERROR" ELSE "INVALID")
                 /\ results'[i].reason =
                        (IF Prod THEN "Extraction error" ELSE "Extractor error")
                 /\ results'[i].file_name = PdfOf(i)'.file_name
                 /\ results'[i].po_number = (IF Framed' THEN "" ELSE None)
                 /\ results'[i].invoice_number = None
                 /\ results'[i].invoice_amount = None
                 /\ results'[i].remaining_before = None
        /\ \A k \in 1..Len(results') :
              (BudgetTurn /\ k = idx /\ ExtractionFailed(k)') =>
                 /\ po_df' = po_df
                 /\ seen_keys' = seen_keys
                 /\ history' = history
        /\ history' # history =>
              \A h \in 1..Len(history') :
                  \/ h <= Len(history) /\ history'[h] = history[h]
                  \/ \E i \in 1..Len(results) :
                        /\ ~ExtractionFailed(i)
                        /\ InvOf(i) = history'[h].invoice_number
        /\ pc' = "done" =>
              /\ Len(results') = Len(directory')
              /\ \A i \in 1..Len(results') :
                    results'[i].status \in
                        {"VALID", "NEEDS_REVIEW", "INVALID", "OVERBUDGET", "PO_NOT_FOUND",
                         "DUPLICATE", "DUPLICATE_HISTORY", "ERROR"}
      ]_vars

\* C11 witness: a run ended whose first document failed in extraction and
\* whose second document was accepted.
ExtractionFailureIsIsolatedWitness ==
    /\ pc = "done"
    /\ Len(results) = 2
    /\ ExtractionFailed(1)
    /\ results[1].status \in {"ERROR", "INVALID"}
    /\ results[2].status = "VALID"

\* the PDF behind row i has no text: pdfminer failed on it, or returned
\* nothing, or returned blanks only
NoText(i) == ~PdfOf(i).raises /\ PdfOf(i).text \in {"unreadable", "", " \n "}

\* C12: for a document without text (empty, blank, or pdfminer failed) the
\* extractor returns a dict and not an exception, with po_number,
\* invoice_number and invoice_amount None, and the row of the document is
\* NEEDS_REVIEW for a missing invoice number from its creation to the end of
\* the run, in both runners.
EmptyTextNeedsReview ==
    \A i \in 1..Len(results) :
        NoText(i) =>
           /\ extract_invoice_dict(PdfOf(i)) = [raised |-> FALSE, fields |-> NoFields]
           /\ results[i].status = "NEEDS_REVIEW"
           /\ results[i].reason = "Invoice number missing"
           /\ results[i].po_number = (IF Framed THEN "" ELSE None)
           /\ results[i].invoice_number = None
           /\ results[i].invoice_amount = None

\* C12 witness: a run ended on a PDF pdfminer could not read and a PDF of
\* blanks.
EmptyTextNeedsReviewWitness ==
    /\ pc = "done"
    /\ Len(results) = 2
    /\ PdfOf(1).text = "unreadable" /\ PdfOf(2).text = " \n "
    /\ results[1].status = "NEEDS_REVIEW" /\ results[2].status = "NEEDS_REVIEW"

\* row i carries a PO number that no record of the loaded register has
Unregistered(i) ==
    PoOf(i) # "" /\ \A k \in 1..Len(loaded) : loaded[k].PO_Number # PoOf(i)

\* row i is a duplicate for its runner: in run_batch_prod its invoice number
\* is shared in the batch or is in the loaded history, in run_batch an
\* earlier row has the same PO number and invoice number
IsDuplicate(i) ==
    IF Prod THEN CollidesInBatch(i) \/ InvOf(i) \in LoadedHistoryNumbers
    ELSE /\ InvOf(i) # "" /\ PoOf(i) # ""
         /\ \E j \in 1..(i - 1) : InvOf(j) = InvOf(i) /\ PoOf(j) = PoOf(i)

\* row i carries an amount > 0
PositiveAmount(i) ==
    results[i].invoice_amount # << >> /\ results[i].invoice_amount[1] > 0

\* C13 as stated: at the end of a run every document whose PO number is not
\* in the register is PO_NOT_FOUND.
UnregisteredPoAlwaysNotFound ==
    pc = "done" =>
      \A i \in 1..Len(results) : Unregistered(i) => results[i].status = "PO_NOT_FOUND"

\* C13 amended: a processed document whose PO number is not in the register
\* is PO_NOT_FOUND exactly when it has an invoice number, is not a duplicate
\* and has an amount > 0; otherwise an earlier rule has given its status.  It
\* is never VALID nor OVERBUDGET and never reaches the budget check.
UnregisteredPoNotFoundUnlessEarlierRule ==
    \A i \in 1..Len(results) :
        (Processed(i) /\ Unregistered(i)) =>
           /\ results[i].status = "PO_NOT_FOUND"
                 <=> (InvOf(i) # "" /\ ~IsDuplicate(i) /\ PositiveAmount(i))
           /\ results[i].status \in
                 {"PO_NOT_FOUND", "NEEDS_REVIEW", "INVALID", "DUPLICATE", "DUPLICATE_HISTORY"}
           /\ results[i].remaining_before = << >>

\* C13 witness: a run ended with two documents on the unregistered PO-9, one
\* without invoice number, one complete: NEEDS_REVIEW and PO_NOT_FOUND.
UnregisteredPoNotFoundUnlessEarlierRuleWitness ==
    /\ pc = "done"
    /\ Len(results) = 2
    /\ Unregistered(1) /\ Unregistered(2)
    /\ PoOf(1) = "PO-9" /\ PoOf(2) = "PO-9"
    /\ InvOf(1) = "" /\ PositiveAmount(1)
    /\ results[1].status = "NEEDS_REVIEW"
    /\ results[2].status = "PO_NOT_FOUND"

\* row i has an invoice number, is no duplicate, and lacks a PO number or an
\* amount > 0
LacksPoOrAmount(i) ==
    /\ ~ExtractionFailed(i)
    /\ InvOf(i) # ""
    /\ ~IsDuplicate(i)
    /\ PoOf(i) = "" \/ ~PositiveAmount(i)

\* C14 as stated: at the end of a run a document with an invoice number that
\* is no duplicate and lacks a PO number or an amount > 0 is INVALID.
MissingPoOrAmountIsInvalid ==
    pc = "done" =>
      \A i \in 1..Len(results) : LacksPoOrAmount(i) => results[i].status = "INVALID"

\* C14 amended: such a document ends INVALID in run_batch and NEEDS_REVIEW in
\* run_batch_prod (it is NEEDS_REVIEW there from duplicate detection on); it
\* never reaches the budget check and its turn leaves the register unchanged.
MissingPoOrAmountIsRejected ==
    [][ /\ \A i \in 1..Len(results') :
              ((Framed' \/ ~Prod) /\ LacksPoOrAmount(i)') =>
                 /\ Processed(i)' =>
                       results'[i].status = (IF Prod THEN "NEEDS_REVIEW" ELSE "INVALID")
                 /\ results'[i].status \in {"NEEDS_REVIEW", "INVALID", "VALID"}
                 /\ results'[i].remaining_before = << >>
                 /\ results'[i].remaining_after = << >>
        /\ \A k \in 1..Len(results') :
              (BudgetTurn /\ k = idx /\ LacksPoOrAmount(k)') => po_df' = po_df
      ]_vars

\* C14 witness: a run ended on a document with an invoice number and an
\* amount but no PO number, and one with a registered PO and amount 0.
MissingPoOrAmountIsRejectedWitness ==
    /\ pc = "done"
    /\ Len(results) = 2
    /\ LacksPoOrAmount(1) /\ LacksPoOrAmount(2)
    /\ PoOf(1) = "" /\ results[1].invoice_amount = Some(500)
    /\ PoOf(2) = "PO-1" /\ results[2].invoice_amount = Some(0)
    /\ results[1].status = results[2].status
    /\ results[1].status \in {"NEEDS_REVIEW", "INVALID"}

\* the normalized PO numbers of the register file
RegisterPoNumbers == {Strip(register[k].PO_Number) : k \in 1..Len(register)}

RECURSIVE AlreadyOver(_)
\* sum of Amount_Already_Invoiced over a set of rows of the register file
AlreadyOver(rows) ==
    IF rows = {} THEN 0
    ELSE LET k == CHOOSE k \in rows : TRUE
         IN register[k].Amount_Already_Invoiced + AlreadyOver(rows \ {k})

\* the one budget record the rows of PO number po add up to
Aggregate(po) ==
    LET rows == {k \in 1..Len(register) : Strip(register[k].PO_Number) = po}
        total == CHOOSE t \in {register[k].Total_PO_Value : k \in rows} :
                    \A k \in rows : register[k].Total_PO_Value <= t
    IN PoRow(po, total, AlreadyOver(rows), total - AlreadyOver(rows))

\* C15: once the register is loaded the ledger holds one record per PO
\* number of the register, equal at load to the aggregate of that PO's rows
\* (total = max, already = sum, remaining = total - already); the two rows
\* (1000, 200) and (1000, 300) of PO-1 give (1000, 500, 500); and the budget
\* check of a row sees that aggregate balance less what the run accepted
\* before on the PO.
LedgerIsAggregated ==
    pc # "idle" =>
      /\ Len(po_df) = Cardinality(RegisterPoNumbers)
      /\ \A po \in RegisterPoNumbers :
            \E k \in 1..Len(loaded) :
                /\ loaded[k] = Aggregate(po)
                /\ po_df[k].PO_Number = po
      /\ register = RegisterB => Aggregate("PO-1") = PoRow("PO-1", 1000, 500, 500)
      /\ \A i \in 1..Len(results) :
            ReachedBudgetCheck(i) =>
               results[i].remaining_before =
                   Some(Aggregate(PoOf(i)).Remaining_Budget - ValidSumBefore(i, PoOf(i)))

\* C15 restricted to run_batch, where it holds
LedgerIsAggregatedInRunBatch == ~Prod => LedgerIsAggregated

\* by how much the remaining budget of a record is off total - already
Drift(row) ==
    row.Remaining_Budget - (row.Total_PO_Value - row.Amount_Already_Invoiced)

\* C16 as stated: every record of the ledger has remaining budget = total -
\* already invoiced, at load and after every processed invoice.
RemainingIsTotalMinusAlready ==
    \A k \in 1..Len(po_df) : Drift(po_df[k]) = 0

\* C16 amended: processing invoices never changes remaining - (total -
\* already) of a record; it is 0 at load in run_batch, and in run_batch_prod
\* for a row whose Remaining_Budget cell is 0 with a positive total; a
\* non-zero Remaining_Budget cell is kept as the register gives it.
DriftIsKeptFromLoad ==
    \A k \in 1..Len(po_df) :
        /\ Drift(po_df[k]) = Drift(loaded[k])
        /\ ~Prod => Drift(loaded[k]) = 0
        /\ Prod =>
              loaded[k].Remaining_Budget =
                  IF register[k].Remaining_Budget = 0 /\ register[k].Total_PO_Value > 0
                  THEN register[k].Total_PO_Value - register[k].Amount_Already_Invoiced
                  ELSE register[k].Remaining_Budget

\* C16 witness: run_batch_prod accepted 500 on PO-2, loaded with total 600,
\* already 100 and a Remaining_Budget cell of 550: the record ends with
\* total 600, already 600 and 50 remaining.
DriftIsKeptFromLoadWitness ==
    /\ Prod
    /\ pc = "done"
    /\ register = RegisterA
    /\ po_df[2] = PoRow("PO-2", 600, 600, 50)
    /\ \E i \in 1..Len(results) :
          results[i].status = "VALID" /\ results[i].remaining_before = Some(550)

\* the rows of the batch that ended VALID
ValidRows == {i \in 1..Len(results) : results[i].status = "VALID"}

----------------------------------------------------------------------------
(* _append_to_history as a function of its two frames.  In a run of
   run_batch_prod a VALID row never carries an invoice number of the loaded
   history, so the collision case of the merge is exercised here on frames
   drawn from bounded sets: the history merge of UpdateHistory is applied to
   them, and then applied again to its own outcome. *)

\* the records an earlier batch can have left in the history file
HistoryRecords ==
    [invoice_number : InvoiceNumbers, po_number : {"PO-1", "PO-2"}, batch_id : {1}]

\* history frames as _append_to_history leaves them: at most one record for
\* an invoice number
Histories ==
    {<< >>} \cup {<< r >> : r \in HistoryRecords}
            \cup {h \in {<< r, q >> : r \in HistoryRecords, q \in HistoryRecords} :
                      h[1].invoice_number # h[2].invoice_number}

\* a row of the batch frame after the budget loop
BatchRow(n, po, inv, status) ==
    [file_name |-> FileNames[n], po_number |-> po, invoice_number |-> Some(inv),
     invoice_amount |-> Some(500), status |-> status, reason |-> "",
     batch_id |-> 2, remaining_before |-> None, remaining_after |-> None,
     po_row_index |-> None]

\* batch frames of one or two rows
BatchFrames ==
    LET Rows(n) == {BatchRow(n, po, inv, st) :
                       po \in {"PO-1", "PO-2"}, inv \in InvoiceNumbers,
                       st \in {"VALID", "OVERBUDGET"}}
    IN {<< r >> : r \in Rows(1)} \cup {<< r, q >> : r \in Rows(1), q \in Rows(2)}

\* the second batch of run_batch_prod stands after its budget loop, with any
\* history frame and any batch frame
InitMerge ==
    /\ runner = "run_batch_prod"
    /\ extractor = "lower"
    /\ seen_keys = {}
    /\ register = RegisterA
    /\ directory = << >>
    /\ history_df \in Histories
    /\ history = history_df
    /\ batch_id = 2
    /\ pc = "budget"
    /\ po_df = ensure_po_columns(register)
    /\ results \in BatchFrames
    /\ idx = Len(results) + 1
    /\ same_batch = FALSE
    /\ valid_log = << >>
    /\ Quiet

\* _append_to_history applied to the merged history and the same new rows
ReplayAppend ==
    /\ pc = "done"
    /\ history' = append_to_history(history, hist_rows(results))
    /\ pc' = "replayed"
    /\ UNCHANGED << xvars, runner, extractor, register, directory, batch_id, po_df,
                    history_df, results, idx, same_batch, seen_keys, valid_log >>

NextMerge ==
    \/ UpdateHistory
    \/ ReplayAppend

SpecMerge == InitMerge /\ [][NextMerge]_vars

\* C18: the history merge leaves every pre-existing record where and as it
\* was, adds no row whose invoice number a pre-existing record carries, and
\* records every new invoice number; merging the same rows again changes
\* nothing.
MergeKeepsFirstAndIsIdempotent ==
    [][/\ (pc = "budget" /\ pc' = "done") =>
             /\ SubSeq(history', 1, Len(history_df)) = history_df
             /\ \A k \in (Len(history_df) + 1)..Len(history') :
                   \A j \in 1..Len(history_df) :
                       history'[k].invoice_number # history_df[j].invoice_number
             /\ \A i \in ValidRows :
                   \E k \in 1..Len(history') : history'[k].invoice_number = InvOf(i)
       /\ (pc = "done" /\ pc' = "replayed") => history' = history]_vars

\* C18 witness: the merge was applied twice to a history and to new rows of
\* which one carries the invoice number of a pre-existing record with another
\* PO number, and one carries a new invoice number; the pre-existing record
\* stands and the history grew by one record.
MergeKeepsFirstAndIsIdempotentWitness ==
    /\ pc = "replayed"
    /\ Len(history_df) = 1
    /\ Len(history) = 2
    /\ history[1] = history_df[1]
    /\ \E i \in ValidRows :
          /\ InvOf(i) = history_df[1].invoice_number
          /\ results[i].po_number # history_df[1].po_number

----------------------------------------------------------------------------
(* A whole run as a function of the directory listing *)

\* the budget loop of run_batch_prod from row i on
RECURSIVE budget_loop(_, _, _)
budget_loop(df, rows, i) ==
    IF i > Len(rows) THEN [results |-> rows, po_df |-> df]
    ELSE LET s == budget_step(df, rows[i])
         IN budget_loop(s.df, [rows EXCEPT ![i] = s.row], i + 1)

\* run_batch_prod on a listing: extraction in listing order, duplicate
\* detection, budget loop in the order of the rows
run_batch_prod_outcome(listing, hdf, reg, bid) ==
    LET rows == [i \in 1..Len(listing) |-> result_row(listing[i], "lower", bid)]
    IN budget_loop(ensure_po_columns(reg), detect_duplicates(rows, hdf), 1)

\* the loop of run_batch over the sorted PDFs from position i on
RECURSIVE process_loop(_, _, _, _, _, _, _)
process_loop(df, pdfs, seen, bid, keys, acc, i) ==
    IF i > Len(pdfs) THEN [results |-> acc, po_df |-> df]
    ELSE LET out == process_invoice(df, pdfs[i], seen, bid, keys)
         IN process_loop(out.df, pdfs, out.seen, bid, keys, Append(acc, out.res), i + 1)

\* run_batch on a listing
run_batch_outcome(listing, reg, bid, keys) ==
    process_loop(load_po_register(reg), sorted_pdfs(listing), {}, bid, keys, << >>, 1)

\* the run of the current batch on a listing
Outcome(listing) ==
    IF Prod THEN run_batch_prod_outcome(listing, history_df, register, batch_id)
    ELSE run_batch_outcome(listing, register, batch_id, extractor)

\* the status each file name got
StatusByName(rows) == {<< rows[i].file_name, rows[i].status >> : i \in 1..Len(rows)}

\* the listing in the opposite order
Reverse(listing) == [i \in 1..Len(listing) |-> listing[Len(listing) + 1 - i]]

\* C19: a finished run has assigned the statuses and left the PO balances
\* that the run on the same documents listed in the opposite order, with the
\* same register and the same history, assigns and leaves.
ListingOrderDoesNotMatter ==
    pc = "done" =>
      /\ StatusByName(results) = StatusByName(Outcome(directory).results)
      /\ po_df = Outcome(directory).po_df
      /\ StatusByName(results) = StatusByName(Outcome(Reverse(directory)).results)
      /\ po_df = Outcome(Reverse(directory)).po_df

\* C19, the part that holds: run_batch, which sorts the listing by file name
ListingOrderDoesNotMatterInRunBatch == ~Prod => ListingOrderDoesNotMatter

\* the terminal statuses
Statuses ==
    {"VALID", "NEEDS_REVIEW", "INVALID", "OVERBUDGET", "PO_NOT_FOUND",
     "DUPLICATE", "DUPLICATE_HISTORY", "ERROR"}

\* C20: a finished run has as many result rows as the directory has
\* documents, every document's file name is on exactly one row, and every
\* row's status is one of the eight terminal statuses.
OneResultRowPerDocument ==
    pc = "done" =>
      /\ Len(results) = Len(directory)
      /\ \A d \in 1..Len(directory) :
            Cardinality({i \in 1..Len(results) :
                            results[i].file_name = directory[d].file_name}) = 1
      /\ \A i \in 1..Len(results) : results[i].status \in Statuses

\* C20 witness: a run over two documents ended, one of them a copy of the
\* other's invoice number, and the two rows carry the two file names.
OneResultRowPerDocumentWitness ==
    /\ pc = "done"
    /\ Len(directory) = 2
    /\ directory[1].fields.invoice_number = directory[2].fields.invoice_number
    /\ directory[1].fields.invoice_number # None
    /\ ~directory[1].raises /\ ~directory[2].raises
    /\ directory[1].text = "INVOICE ..." /\ directory[2].text = "INVOICE ..."
    /\ {results[i].file_name : i \in 1..Len(results)} = {"a.pdf", "b.pdf"}
    /\ \E i \in 1..Len(results) : results[i].status \in {"DUPLICATE", "INVALID"}

----------------------------------------------------------------------------
(* Runs on a register sheet that lacks columns *)

\* the sheet without the columns of gone
without(rows, gone) ==
    [i \in 1..Len(rows) |-> [c \in DOMAIN rows[i] \ gone |-> rows[i][c]]]

\* RegisterA with one or more of its four columns missing
RegistersLackingColumns ==
    {without(RegisterA, gone) : gone \in SUBSET DOMAIN RegisterA[1] \ {{}}}

\* one run of either runner on such a sheet, the history file being empty
InitLoad ==
    /\ runner \in Runners
    /\ extractor \in ExtractorKeys
    /\ runner = "run_batch_prod" => extractor = "lower"
    /\ seen_keys = {}
    /\ register \in RegistersLackingColumns
    /\ directory = << >>
    /\ history = << >>
    /\ batch_id = MaxRuns - 1
    /\ pc = "idle"
    /\ po_df = << >>
    /\ history_df = << >>
    /\ results = << >>
    /\ idx = 1
    /\ same_batch = FALSE
    /\ valid_log = << >>
    /\ Quiet

SpecLoad == InitLoad /\ [][Next]_vars

\* C21: once a run has started on a register that lacks one of PO_Number,
\* Total_PO_Value and Amount_Already_Invoiced, the run has aborted: no
\* document was reconciled, and no report and no history was written.
MissingColumnFailsFast ==
    (pc # "idle" /\ ~(PO_REQUIRED_COLS \subseteq columns(register))) =>
        /\ pc = "crashed"
        /\ results = << >>
        /\ history = << >>

\* C21, the part that holds: load_po_register of run_batch.py
MissingColumnFailsFastInRunBatch == ~Prod => MissingColumnFailsFast

----------------------------------------------------------------------------
(* Termination of a run.  Both runners are sequential programs: once called,
   a run takes its next step until it has written the workbook or raised. *)

\* the last run the bound allows, on a register with all its columns
InitOneRun ==
    /\ runner \in Runners
    /\ extractor \in ExtractorKeys
    /\ runner = "run_batch_prod" => extractor = "lower"
    /\ seen_keys = {}
    /\ register = RegisterA
    /\ directory = << >>
    /\ history = << >>
    /\ batch_id = MaxRuns - 1
    /\ pc = "idle"
    /\ po_df = << >>
    /\ history_df = << >>
    /\ results = << >>
    /\ idx = 1
    /\ same_batch = FALSE
    /\ valid_log = << >>
    /\ Quiet

\* the documents of that run: of every kind, the extracted fields over one
\* registered and one unregistered PO and the amounts none, 0 and 600
OneRunDocuments ==
    {doc \in Documents :
        /\ doc.fields.po_number \in Option({"PO-1", "PO-9"})
        /\ doc.fields.invoice_amount \in Option({0, 600})}

NextOneRun ==
    \/ \E rerun \in BOOLEAN : StartRun(rerun)
    \/ \E doc \in OneRunDocuments, n \in 1..MaxDocs : ExtractInvoice(doc, n)
    \/ DuplicateDetection
    \/ BudgetUpdate
    \/ UpdateHistory
    \/ StartRunBatch
    \/ \E doc \in OneRunDocuments, n \in 1..MaxDocs : ListPdf(doc, n)
    \/ SortPdfs
    \/ ProcessInvoice
    \/ WriteWorkbook

FairSpec == InitOneRun /\ [][NextOneRun]_vars /\ WF_vars(NextOneRun)

\* the run has listed at least one document
DocumentPresent == pc \in {"extract", "list"} /\ directory # << >>

\* the report is written, with a row for every document
ReportWritten ==
    /\ pc = "done"
    /\ Len(results) = Len(directory)
    /\ \A d \in 1..Len(directory) :
          \E i \in 1..Len(results) : results[i].file_name = directory[d].file_name

\* C22: a run whose register loaded and whose directory holds a document
\* ends with the report written, one row for every document.
ReportIsAlwaysWritten == DocumentPresent ~> ReportWritten

\* C22 witness: the report of a run was written in which the extraction of
\* every document failed and no row is VALID.
ReportIsAlwaysWrittenWitness ==
    /\ ReportWritten
    /\ Len(directory) = MaxDocs
    /\ \A d \in 1..Len(directory) : directory[d].raises
    /\ \A i \in 1..Len(results) : results[i].status \in {"ERROR", "INVALID"}

----------------------------------------------------------------------------
(* Amount parsing: _parse_amount of extract_invoice.py and safe_float of
   run_batch.py on strings.  A string is a sequence of characters; the
   character "U+0663" is ARABIC-INDIC DIGIT THREE, a decimal digit that is
   no ASCII digit. *)

\* longest string of the enumeration
MaxLen == 4

\* the variables of the runs
mvars == << runner, extractor, register, directory, history, batch_id, pc, po_df,
            history_df, results, idx, same_batch, seen_keys, valid_log >>

\* no run was started
NoRun ==
    /\ runner = "run_batch"
    /\ extractor = "lower"
    /\ seen_keys = {}
    /\ register = RegisterA
    /\ directory = << >>
    /\ history = << >>
    /\ batch_id = 0
    /\ pc = "idle"
    /\ po_df = << >>
    /\ history_df = << >>
    /\ results = << >>
    /\ idx = 1
    /\ same_batch = FALSE
    /\ valid_log = << >>

\* [0-9]
AsciiDigits == {"0", "3", "4", "5", "7", "8"}

\* \d of a str pattern: every Unicode decimal digit
UnicodeDigits == AsciiDigits \cup {"U+0663"}

\* the value of a decimal digit, as float reads it
digit_value(c) ==
    CASE c = "0" -> 0 [] c = "3" -> 3 [] c = "4" -> 4 [] c = "5" -> 5
      [] c = "7" -> 7 [] c = "8" -> 8 [] c = "U+0663" -> 3

\* the characters of the enumerated strings
Alphabet == {"5", "0", ",", ".", "-", " ", "T", "U+0663"}

\* the strings of the spec's examples
Text3s748c50 == << "3", " ", "7", "4", "8", ",", "5", "0" >>
Text3c748d50 == << "3", ",", "7", "4", "8", ".", "5", "0" >>
Text3d748c50 == << "3", ".", "7", "4", "8", ",", "5", "0" >>
Text3748 == << "3", "7", "4", "8" >>

\* the strings handed to the parsers
AmountTexts ==
    UNION {[1..n -> Alphabet] : n \in 0..MaxLen}
      \cup {Text3s748c50, Text3c748d50, Text3d748c50, Text3748}

\* str.strip
RECURSIVE lstrip(_)
lstrip(s) == IF s # << >> /\ Head(s) = " " THEN lstrip(Tail(s)) ELSE s

RECURSIVE rstrip(_)
rstrip(s) ==
    IF s # << >> /\ s[Len(s)] = " " THEN rstrip(SubSeq(s, 1, Len(s) - 1)) ELSE s

strip(s) == rstrip(lstrip(s))

\* c in s
contains(s, c) == \E i \in 1..Len(s) : s[i] = c

\* s.rfind(c), positions counted from 1, 0 when c is not in s
rfind(s, c) ==
    IF contains(s, c)
    THEN CHOOSE i \in 1..Len(s) : s[i] = c /\ \A j \in (i + 1)..Len(s) : s[j] # c
    ELSE 0

\* s.replace(c, "")
remove(s, c) == SelectSeq(s, LAMBDA x : x # c)

\* s.replace(c, d)
replace(s, c, d) == [i \in 1..Len(s) |-> IF s[i] = c THEN d ELSE s[i]]

\* re.sub of every character outside keep
keep_only(s, keep) == SelectSeq(s, LAMBDA x : x \in keep)

\* the number the digits of s spell
RECURSIVE digits_value(_)
digits_value(s) ==
    IF s = << >> THEN 0
    ELSE 10 * digits_value(SubSeq(s, 1, Len(s) - 1)) + digit_value(s[Len(s)])

\* mantissa and decimal exponent without trailing zeros of the fraction
RECURSIVE reduce(_, _)
reduce(m, e) == IF e > 0 /\ m % 10 = 0 THEN reduce(m \div 10, e - 1) ELSE << m, e >>

\* a float: mantissa m and e decimals stand for m / 10^e, negated when neg;
\* equal numbers have equal records
Float(neg, m, e) ==
    [neg |-> neg /\ m # 0, m |-> reduce(m, e)[1], e |-> reduce(m, e)[2]]

\* the exception float raises on a string that spells no number
ValueError == [raised |-> "ValueError"]

\* float(s) on a string of digits, separators and minus: the number, or
\* ValueError
float_of(s) ==
    LET neg == s # << >> /\ Head(s) = "-"
        body == IF neg THEN Tail(s) ELSE s
        point == rfind(body, ".")
        digits == remove(body, ".")
    IN IF /\ digits # << >>
          /\ \A i \in 1..Len(digits) : digits[i] \in UnicodeDigits
          /\ Len(body) - Len(digits) <= 1
       THEN Float(neg, digits_value(digits),
                  IF point = 0 THEN 0 ELSE Len(body) - point)
       ELSE ValueError

\* the separator branches of _parse_amount
parse_amount_separators(s) ==
    IF contains(s, ",") /\ contains(s, ".") THEN
        IF rfind(s, ",") > rfind(s, ".")
        THEN replace(remove(s, "."), ",", ".")
        ELSE remove(s, ",")
    ELSE IF contains(s, ",") /\ ~contains(s, ".") THEN replace(s, ",", ".")
    ELSE s

\* _parse_amount without the try around float: the exception comes out in
\* the place of the number
parse_amount_uncaught(raw) ==
    IF raw = << >> THEN None
    ELSE LET s == remove(keep_only(strip(raw), UnicodeDigits \cup {",", ".", "-", " "}),
                         " ")
             f == float_of(parse_amount_separators(s))
         IN Some(f)

\* _parse_amount
parse_amount(raw) ==
    IF raw = << >> THEN None
    ELSE LET s == remove(keep_only(strip(raw), UnicodeDigits \cup {",", ".", "-", " "}),
                         " ")
             f == float_of(parse_amount_separators(s))
         IN IF f = ValueError THEN None ELSE Some(f)

\* safe_float on a string
safe_float_of_text(x) ==
    IF strip(x) = << >> THEN None
    ELSE LET s == keep_only(strip(x), AsciiDigits \cup {",", ".", "-"})
         IN IF s = << >> \/ s \in {<< "-" >>, << "." >>, << "," >>} THEN None
            ELSE LET t == IF contains(s, ",") /\ contains(s, ".") THEN
                              IF rfind(s, ",") > rfind(s, ".")
                              THEN replace(remove(s, "."), ",", ".")
                              ELSE remove(s, ",")
                          ELSE IF contains(s, ",") /\ ~contains(s, ".")
                               THEN replace(remove(s, "."), ",", ".")
                               ELSE remove(s, ",")
                     f == float_of(t)
                 IN IF f = ValueError THEN None ELSE Some(f)

\* a string is handed to the two parsers
InitAmount ==
    /\ NoRun
    /\ amount_text \in AmountTexts
    /\ amount_out = << >>
    /\ pdf_in = << >>
    /\ pdf_out = << >>
    /\ other_run = << >>

\* the two calls
ParseAmount ==
    /\ amount_out = << >>
    /\ amount_out' = [parse_amount |-> parse_amount(amount_text),
                      safe_float |-> safe_float_of_text(amount_text)]
    /\ UNCHANGED << mvars, amount_text, pdf_in, pdf_out, other_run >>

NextAmount == ParseAmount

SpecAmount == InitAmount /\ [][NextAmount]_vars

\* the characters of the text that the claim keeps: digits, separators, minus
Kept == keep_only(amount_text, UnicodeDigits \cup {",", ".", "-"})

\* the number the claim's rule gives: the last separator is the decimal
\* point when both occur, a comma is when only commas occur
ByPosition ==
    LET last == IF rfind(Kept, ",") > rfind(Kept, ".") THEN "," ELSE "."
        other == IF last = "," THEN "." ELSE ","
        both == contains(Kept, ",") /\ contains(Kept, ".")
        t == IF both THEN replace(remove(Kept, other), last, ".")
             ELSE replace(Kept, ",", ".")
    IN IF float_of(t) = ValueError THEN None ELSE Some(float_of(t))

\* C24, its rule and its examples: _parse_amount returns the number the
\* rule gives, None when there is none
SeparatorsResolvedByPosition ==
    amount_out # << >> =>
      /\ amount_out.parse_amount = ByPosition
      /\ amount_text \in {Text3s748c50, Text3c748d50, Text3d748c50} =>
            amount_out.parse_amount = Some(Float(FALSE, 37485, 1))
      /\ amount_text = Text3748 => amount_out.parse_amount = Some(Float(FALSE, 3748, 0))

\* C24, its last part on ASCII strings: the two parsers agree
ParsersAgreeOnAscii ==
    (amount_out # << >> /\ ~contains(amount_text, "U+0663")) =>
        amount_out.parse_amount = amount_out.safe_float

\* C24: _parse_amount resolves the separators by position, and safe_float
\* agrees with it on every input.
AmountNormalization ==
    /\ SeparatorsResolvedByPosition
    /\ amount_out # << >> => amount_out.parse_amount = amount_out.safe_float

----------------------------------------------------------------------------
(* The extractor step by step: extract_invoice_fields of extract_invoice.py
   on what pdfminer returns for a PDF and on what each pattern family finds
   in its text.  The body of _extract_fields_from_text is read with the
   amount loop inside the function, as its return statement requires. *)

\* an amount string that spells no number
Text5d5d5 == << "5", ".", "5", ".", "5" >>

\* the PDFs handed to the extractor.  extract_text: pdfminer raises, returns
\* None, returns blanks, or returns a text; the other fields are what
\* _find_first, _extract_invoice_by_label, _extract_invoice_heuristic and the
\* amount patterns find in that text.
PdfInputs ==
    [extract_text : {"raises", "None", "blank", "text"},
     po : Option({"PO-1"}),
     inv : Option({"inv-001"}),
     label : Option({"INV-002"}),
     heuristic : Option({"INV-003"}),
     amt_raw : Option({Text3s748c50, Text5d5d5})]

\* _normalize_id: None for nothing, otherwise the upper-cased identifier
normalize_id(raw) ==
    IF raw = << >> THEN None
    ELSE IF raw[1] = "inv-001" THEN Some("INV-001") ELSE raw

\* _extract_fields_from_text: po, inv, amt, or the exception that escapes it
extract_fields_from_text(text) ==
    LET po == text.po
        inv1 == normalize_id(text.inv)
        inv2 == IF inv1 = None THEN text.label ELSE inv1
        inv3 == IF inv2 = None THEN text.heuristic ELSE inv2
        amt == IF text.amt_raw # None THEN parse_amount(text.amt_raw[1]) ELSE None
    IN IF amt = Some(ValueError) THEN ValueError
       ELSE [po_number |-> po, invoice_number |-> inv3, invoice_amount |-> amt]

\* extract_invoice_fields: the dict it returns, or the exception it raises
extract_invoice_fields_of_pdf(pdf) ==
    IF pdf.extract_text = "raises" THEN [raised |-> FALSE, fields |-> NoFields]
    ELSE IF pdf.extract_text \in {"None", "blank"}
         THEN [raised |-> FALSE, fields |-> NoFields]
    ELSE LET f == extract_fields_from_text(pdf)
         IN IF f = ValueError THEN [raised |-> TRUE, fields |-> << >>]
            ELSE [raised |-> FALSE, fields |-> f]

\* a PDF is handed to the extractor
InitExtract ==
    /\ NoRun
    /\ amount_text = << >>
    /\ amount_out = << >>
    /\ pdf_in \in PdfInputs
    /\ pdf_out = << >>
    /\ other_run = << >>

\* the call
ExtractInvoiceFields ==
    /\ pdf_out = << >>
    /\ pdf_out' = extract_invoice_fields_of_pdf(pdf_in)
    /\ UNCHANGED << mvars, amount_text, amount_out, pdf_in, other_run >>

NextExtract == ExtractInvoiceFields

SpecExtract == InitExtract /\ [][NextExtract]_vars

\* the amount string of the PDF spells a number
AmountSpelled == pdf_in.amt_raw # None /\ pdf_in.amt_raw[1] # Text5d5d5

----------------------------------------------------------------------------
(* Negative balances *)

\* record k of the loaded register has a negative remaining budget and is the
\* record its PO number is checked against
NegativeAtLoad(k) ==
    /\ loaded[k].Remaining_Budget < 0
    /\ \A m \in 1..(k - 1) : loaded[m].PO_Number # loaded[k].PO_Number

\* C25: a PO record that is loaded with a negative remaining budget stays as
\* loaded through the run; no row on its PO number is VALID, and a row on it
\* with an invoice number, a positive amount and no duplicate is OVERBUDGET.
NegativeBalancePassedThrough ==
    \A k \in 1..Len(po_df) :
        NegativeAtLoad(k) =>
          /\ po_df[k] = loaded[k]
          /\ \A i \in 1..Len(results) :
                (Processed(i) /\ PoOf(i) = loaded[k].PO_Number) =>
                   /\ results[i].status # "VALID"
                   /\ (PositiveAmount(i) /\ InvOf(i) # "" /\ ~IsDuplicate(i)) =>
                         /\ results[i].status = "OVERBUDGET"
                         /\ results[i].remaining_before = Some(loaded[k].Remaining_Budget)
                         /\ results[i].remaining_after = Some(loaded[k].Remaining_Budget)

\* C25 witness: a run ended in which an invoice of 500 on PO-2, loaded with
\* total 500, already 700 and -200 remaining, is OVERBUDGET.
NegativeBalancePassedThroughWitness ==
    /\ pc = "done"
    /\ register = RegisterB
    /\ \E k \in 1..Len(po_df) :
          /\ po_df[k] = PoRow("PO-2", 500, 700, -200)
          /\ \E i \in 1..Len(results) :
                /\ PoOf(i) = "PO-2"
                /\ results[i].invoice_amount = Some(500)
                /\ results[i].status = "OVERBUDGET"

----------------------------------------------------------------------------
(* The adapter of run_batch.py *)

\* row i of run_batch carries what the extractor's dict holds for its PDF
HandedThrough(i) ==
    LET d == extract_invoice_dict(PdfOf(i))
    IN ~d.raised =>
          /\ results[i].po_number = normalize_po(d.fields.po_number)
          /\ results[i].invoice_number = d.fields.invoice_number
          /\ results[i].invoice_amount = d.fields.invoice_amount

\* C26: in run_batch on the extractor of src/extract_invoice.py, whose dict
\* has the keys po_number, invoice_number and invoice_amount, every result
\* row carries the PO number, invoice number and amount the extractor found.
AdapterHandsFieldsThrough ==
    (~Prod /\ extractor = "lower") => \A i \in 1..Len(results) : HandedThrough(i)

\* C26 on an extractor whose dict has the keys the adapter reads
AdapterHandsFieldsThroughUpperKeys ==
    (~Prod /\ extractor = "upper") => \A i \in 1..Len(results) : HandedThrough(i)

----------------------------------------------------------------------------
(* The ledger against the report *)

\* record k is the record its PO number is checked against
FirstRecord(k) == \A m \in 1..(k - 1) : loaded[m].PO_Number # loaded[k].PO_Number

\* sum of the amounts of the rows of the report that are VALID on PO number p
ValidSum(p) == ValidSumBefore(Len(results) + 1, p)

\* at the end of a run record k has grown in already-invoiced and shrunk in
\* remaining budget by the VALID amounts on its PO number
MovedByValidSum(k) ==
    LET v == IF FirstRecord(k) THEN ValidSum(loaded[k].PO_Number) ELSE 0
    IN /\ po_df[k].PO_Number = loaded[k].PO_Number
       /\ po_df[k].Total_PO_Value = loaded[k].Total_PO_Value
       /\ po_df[k].Amount_Already_Invoiced = loaded[k].Amount_Already_Invoiced + v
       /\ po_df[k].Remaining_Budget = loaded[k].Remaining_Budget - v

\* C27 as stated: at the end of a run every PO has moved by the sum of its
\* VALID amounts, and that sum does not exceed its remaining budget at load.
ValidSumWithinLoadedBalance ==
    pc = "done" =>
      \A k \in 1..Len(po_df) :
          /\ MovedByValidSum(k)
          /\ FirstRecord(k) => ValidSum(loaded[k].PO_Number) <= loaded[k].Remaining_Budget

\* C27 amended: the sum of the VALID amounts does not exceed a remaining
\* budget at load that is >= 0, and is 0 on a PO loaded with a negative one.
ValidSumWithinLoadedBalanceOrZero ==
    pc = "done" =>
      \A k \in 1..Len(po_df) :
          /\ MovedByValidSum(k)
          /\ FirstRecord(k) =>
                IF loaded[k].Remaining_Budget >= 0
                THEN ValidSum(loaded[k].PO_Number) <= loaded[k].Remaining_Budget
                ELSE ValidSum(loaded[k].PO_Number) = 0

\* C27 witness: a run ended with two VALID rows on PO-1, whose amounts add
\* up to the 1000 it was loaded with.
ValidSumWithinLoadedBalanceOrZeroWitness ==
    /\ pc = "done"
    /\ register = RegisterA
    /\ Len(results) = 2
    /\ \A i \in 1..2 : results[i].status = "VALID" /\ PoOf(i) = "PO-1"
    /\ ValidSum("PO-1") = 1000
    /\ po_df[1] = PoRow("PO-1", 1000, 1000, 0)

----------------------------------------------------------------------------
(* The history file over the runs *)

\* C28: the history file, empty before the first run, never holds two
\* records with the same invoice number nor a record with an empty one.
HistoryKeysUnique ==
    /\ \A h, k \in 1..Len(history) :
          history[h].invoice_number = history[k].invoice_number => h = k
    /\ \A h \in 1..Len(history) : Strip(history[h].invoice_number) # ""

\* C28 witness: two runs have ended; the second found a record in the
\* history, reported an invoice with that record's number and accepted
\* another one, and the history holds two records.
HistoryKeysUniqueWitness ==
    /\ Prod
    /\ pc = "done"
    /\ batch_id = 2
    /\ Len(history_df) = 1
    /\ Len(history) = 2
    /\ \E i \in 1..Len(results) :
          /\ InvOf(i) = history_df[1].invoice_number
          /\ results[i].status = "DUPLICATE_HISTORY"

----------------------------------------------------------------------------
(* run_batch.process_invoice: the seen keys *)

\* the (po_number, invoice_number) key of result row i, as process_invoice
\* builds it
KeyOf(i) == << results[i].po_number, results[i].invoice_number >>

\* row i carries both a PO number and an invoice number
Keyed(i) == Truthy(results[i].po_number) /\ Truthy(results[i].invoice_number)

\* row i was rejected by the duplicate check of process_invoice
RejectedAsDuplicate(i) ==
    /\ results[i].status = "INVALID"
    /\ results[i].reason = "Duplicate invoice detected (same PO_Number + Invoice_Number)"

\* C29: in run_batch the key of every document with both numbers is in
\* seen_keys once the document has been processed, whatever status it got;
\* of the rows with one key only the first is not rejected as a duplicate,
\* and every later one is, also when the first was not accepted.
KeyRecordedBeforeOtherChecks ==
    (~Prod /\ pc \in {"process", "done"}) =>
        /\ seen_keys = {KeyOf(i) : i \in {n \in 1..Len(results) : Keyed(n)}}
        /\ \A i \in 1..Len(results) :
              RejectedAsDuplicate(i) <=>
                  (Keyed(i) /\ \E h \in 1..(i - 1) : Keyed(h) /\ KeyOf(h) = KeyOf(i))
        /\ \A i, j \in 1..Len(results) :
              (Keyed(i) /\ Keyed(j) /\ KeyOf(i) = KeyOf(j)
                 /\ ~RejectedAsDuplicate(i) /\ ~RejectedAsDuplicate(j)) => i = j

\* C29 witness: a run of run_batch ended with two documents of one key, the
\* first one not accepted (INVALID for its amount, PO_NOT_FOUND or
\* OVERBUDGET), the second one, with an amount of 500, rejected as a
\* duplicate, nothing accepted.
KeyRecordedBeforeOtherChecksWitness ==
    /\ ~Prod
    /\ pc = "done"
    /\ Len(results) = 2
    /\ Keyed(1) /\ Keyed(2) /\ KeyOf(1) = KeyOf(2)
    /\ results[1].status \in {"INVALID", "PO_NOT_FOUND", "OVERBUDGET"}
    /\ ~RejectedAsDuplicate(1)
    /\ RejectedAsDuplicate(2)
    /\ results[2].invoice_amount = Some(500)
    /\ seen_keys = {KeyOf(1)}
    /\ \A i \in 1..2 : results[i].status # "VALID"

----------------------------------------------------------------------------
(* Two runs of run_batch_prod on one history file *)

\* the batch id of the second process
OtherBatchId == MaxRuns + 1

\* the invoices the two processes are given
OverlapDocuments ==
    {[raises |-> FALSE, text |-> "INVOICE ...",
      fields |-> [po_number |-> Some("PO-1"), invoice_number |-> Some(inv),
                  invoice_amount |-> Some(500)]] : inv \in InvoiceNumbers}

\* the invoice directories of the second process
OtherListings ==
    {<< Pdf(3, d) >> : d \in OverlapDocuments}
      \cup {<< Pdf(3, d[1]), Pdf(4, d[2]) >> : d \in OverlapDocuments \X OverlapDocuments}

\* a record an earlier run left in the history
EarlierRecord == [invoice_number |-> "INV-002", po_number |-> "PO-1", batch_id |-> 0]

InitOverlap ==
    /\ runner = "run_batch_prod"
    /\ extractor = "lower"
    /\ seen_keys = {}
    /\ register = RegisterA
    /\ directory = << >>
    /\ history \in {<< >>, << EarlierRecord >>}
    /\ batch_id = MaxRuns - 1
    /\ pc = "idle"
    /\ po_df = << >>
    /\ history_df = << >>
    /\ results = << >>
    /\ idx = 1
    /\ same_batch = FALSE
    /\ valid_log = << >>
    /\ Quiet

\* a second process calls run_batch_prod: it loads the history file as it
\* is now (read_at: where the first process is at that moment)
StartOtherRun(listing) ==
    /\ other_run = << >>
    /\ other_run' = << [pc |-> "running", batch_id |-> OtherBatchId,
                        directory |-> listing,
                        history_df |-> load_history(history),
                        results |-> << >>, wrote |-> << >>,
                        read_at |-> pc, wrote_at |-> ""] >>
    /\ UNCHANGED << amount_text, amount_out, pdf_in, pdf_out, runner, extractor,
                    register, directory, history, batch_id, pc, po_df, history_df,
                    results, idx, same_batch, seen_keys, valid_log >>

\* the second process ends: between its load and here it has worked on its
\* own frames only, so its batch is the outcome on what it loaded; it
\* rewrites the history file from the history it loaded and its VALID rows
FinishOtherRun ==
    /\ other_run # << >>
    /\ other_run[1].pc = "running"
    /\ LET o == other_run[1]
           out == run_batch_prod_outcome(o.directory, o.history_df, register, o.batch_id)
           rows == hist_rows(out.results)
           file == append_to_history(o.history_df, rows)
       IN /\ history' = IF rows # << >> THEN file ELSE history
          /\ other_run' = << [o EXCEPT !.pc = "done", !.results = out.results,
                                       !.wrote = IF rows # << >> THEN file ELSE << >>,
                                       !.wrote_at = pc] >>
    /\ UNCHANGED << amount_text, amount_out, pdf_in, pdf_out, runner, extractor,
                    register, directory, batch_id, pc, po_df, history_df,
                    results, idx, same_batch, seen_keys, valid_log >>

NextOverlap ==
    \/ StartRun(FALSE)
    \/ \E doc \in OverlapDocuments, n \in 1..MaxDocs : ExtractInvoice(doc, n)
    \/ DuplicateDetection
    \/ BudgetUpdate
    \/ UpdateHistory
    \/ \E listing \in OtherListings : StartOtherRun(listing)
    \/ FinishOtherRun

SpecOverlap == InitOverlap /\ [][NextOverlap]_vars

\* both processes have ended their run
BothRunsEnded == pc = "done" /\ other_run # << >> /\ other_run[1].pc = "done"

\* the second process wrote before the first one loaded, or loaded after the
\* first one wrote
Serialized ==
    \/ other_run[1].wrote_at = "idle"
    \/ other_run[1].read_at = "done"

\* the file the first process wrote, << >> when it wrote none
MainWrote ==
    IF hist_rows(results) # << >>
    THEN append_to_history(history_df, hist_rows(results)) ELSE << >>

\* the file written by the process that ended first
FirstWrote == IF other_run[1].wrote_at = "done" THEN MainWrote ELSE other_run[1].wrote

\* an invoice number is VALID in the batch of both processes
ValidInBothRuns ==
    \E i \in 1..Len(results), j \in 1..Len(other_run[1].results) :
        /\ results[i].status = "VALID"
        /\ other_run[1].results[j].status = "VALID"
        /\ InvOf(i) = normalize_str(other_run[1].results[j].invoice_number)

\* the history file lacks a record that the process ending first wrote
FirstWriteLost ==
    \E h \in 1..Len(FirstWrote) :
        \A k \in 1..Len(history) : history[k] # FirstWrote[h]

----------------------------------------------------------------------------
(* The remaining budget of a record at load *)

\* the register has one row only for the PO number of its row k
OnlyRowOfItsPo(k) ==
    \A j \in 1..Len(register) :
        Strip(register[j].PO_Number) = Strip(register[k].PO_Number) => j = k

\* the run has loaded the register and has not reached a budget check yet
JustLoaded == pc \in {"extract", "list"}

\* the record the loaded frame holds for the PO number of register row k
RecordOf(k) ==
    po_df[CHOOSE n \in 1..Len(po_df) : po_df[n].PO_Number = Strip(register[k].PO_Number)]

\* C31: at load the remaining budget of a PO with one register row is the
\* Remaining_Budget the register supplies when that is not zero, and
\* total - already invoiced when the register supplies zero with a positive
\* total.
SuppliedBalanceIsKept ==
    JustLoaded =>
        \A k \in 1..Len(register) :
            OnlyRowOfItsPo(k) =>
                /\ register[k].Remaining_Budget # 0 =>
                       RecordOf(k).Remaining_Budget = register[k].Remaining_Budget
                /\ (register[k].Remaining_Budget = 0 /\ register[k].Total_PO_Value > 0) =>
                       RecordOf(k).Remaining_Budget =
                           register[k].Total_PO_Value - register[k].Amount_Already_Invoiced

\* C31, the part that holds: _ensure_po_columns of run_batch_prod.py
SuppliedBalanceIsKeptInProd == Prod => SuppliedBalanceIsKept

----------------------------------------------------------------------------
(* Fatal errors of a run *)

\* the register sheet has the columns the runner insists on
RegisterLoads ==
    IF Prod THEN "PO_Number" \in columns(register)
    ELSE PO_REQUIRED_COLS \subseteq columns(register)

\* C32: a run aborts only when the register cannot be loaded or the
\* directory holds no document, whatever happens to a single document; a
\* run over an empty directory never ends with a report, and an aborted run
\* has written no result row and no history.
FatalOnlyWithoutRegisterOrDocuments ==
    /\ pc = "crashed" =>
          /\ ~RegisterLoads \/ directory = << >>
          /\ results = << >>
          /\ history = << >>
    /\ pc = "done" => (RegisterLoads /\ directory # << >>)
    /\ pc \in {"budget", "process"} => directory # << >>

\* C32 witness: run_batch_prod loaded the register, glob yielded no PDF,
\* and the run has aborted with nothing written.
FatalOnlyWithoutRegisterOrDocumentsWitness ==
    /\ Prod
    /\ pc = "crashed"
    /\ RegisterLoads
    /\ po_df # << >>
    /\ directory = << >>
    /\ results = << >>
    /\ history = << >>

----------------------------------------------------------------------------
(* The invoice number: strict token, labeled pattern, heuristic scan.  The
   texts are given by what the regular expressions match in them; strings
   are sequences of characters. *)

\* str.upper on the letters of the model's strings
upper_char(c) ==
    CASE c = "a" -> "A" [] c = "b" -> "B" [] c = "c" -> "C" [] c = "d" -> "D"
      [] c = "e" -> "E" [] c = "f" -> "F" [] c = "h" -> "H" [] c = "i" -> "I"
      [] c = "l" -> "L" [] c = "m" -> "M" [] c = "n" -> "N" [] c = "o" -> "O"
      [] c = "p" -> "P" [] c = "r" -> "R" [] c = "s" -> "S" [] c = "t" -> "T"
      [] c = "u" -> "U" [] c = "v" -> "V" [] c = "x" -> "X" [] OTHER -> c

upper(s) == [i \in 1..Len(s) |-> upper_char(s[i])]

\* [A-Z0-9] after upper
IdLetters ==
    {"A", "B", "C", "D", "E", "F", "H", "I", "L", "M", "N", "O", "P", "R", "S", "T",
     "U", "V", "X"}

IdDigits == {"0", "1", "2", "3", "4", "5", "6", "7", "8", "9"}

\* \w: letters, digits and the underscore
IsWordChar(c) == upper_char(c) \in IdLetters \cup IdDigits \cup {"_"}

\* s.strip(chars)
RECURSIVE strip_chars(_, _)
strip_chars(s, chars) ==
    IF s # << >> /\ Head(s) \in chars THEN strip_chars(Tail(s), chars)
    ELSE IF s # << >> /\ s[Len(s)] \in chars
         THEN strip_chars(SubSeq(s, 1, Len(s) - 1), chars)
         ELSE s

\* re.sub(r"\s+", "-", s)
RECURSIVE sub_spaces(_)
sub_spaces(s) ==
    IF s = << >> THEN << >>
    ELSE IF Head(s) # " " THEN << Head(s) >> \o sub_spaces(Tail(s))
    ELSE << "-" >> \o sub_spaces(lstrip(s))

\* _normalize_id on a string: None for None and for what normalizes to ""
normalize_id_of_text(raw) ==
    IF raw = None \/ raw = Some(<< >>) THEN None
    ELSE LET s1 == strip_chars(strip(raw[1]), {" ", ".", ",", ":", ";", "|", "-"})
             s2 == sub_spaces(s1)
             s3 == keep_only(upper(s2), IdLetters \cup IdDigits \cup {"-", "/", "_", "."})
         IN IF s3 = << >> THEN None ELSE Some(s3)

\* re.split(r"\s+", candidate) on a stripped string
RECURSIVE split_spaces(_)
split_spaces(s) ==
    IF s = << >> THEN << >>
    ELSE LET n == IF contains(s, " ") THEN (CHOOSE i \in 1..Len(s) :
                        s[i] = " " /\ \A j \in 1..(i - 1) : s[j] # " ") - 1
                  ELSE Len(s)
         IN << SubSeq(s, 1, n) >> \o split_spaces(lstrip(SubSeq(s, n + 1, Len(s))))

\* " ".join(chunks)
RECURSIVE join_spaces(_)
join_spaces(chunks) ==
    IF chunks = << >> THEN << >>
    ELSE IF Len(chunks) = 1 THEN chunks[1]
    ELSE chunks[1] \o << " " >> \o join_spaces(Tail(chunks))

\* \b at position i of s: between s[i - 1] and s[i]
word_boundary(s, i) ==
    LET before == i > 1 /\ IsWordChar(s[i - 1])
        after == i <= Len(s) /\ IsWordChar(s[i])
    IN before # after

\* s has the characters of w from position i on
starts_with(s, i, w) ==
    i + Len(w) - 1 <= Len(s) /\ SubSeq(s, i, i + Len(w) - 1) = w

\* the position after the white space that starts at position i
RECURSIVE skip_spaces(_, _)
skip_spaces(s, i) == IF i <= Len(s) /\ s[i] = " " THEN skip_spaces(s, i + 1) ELSE i

\* \bword\b matches somewhere in s, letter case ignored
word_in(s, word) ==
    \E i \in 1..Len(s) :
        /\ word_boundary(s, i)
        /\ starts_with(upper(s), i, word)
        /\ word_boundary(s, i + Len(word))

\* \bfirst\s*second\b matches somewhere in s, letter case ignored
two_words_in(s, first, second) ==
    \E i \in 1..Len(s) :
        /\ word_boundary(s, i)
        /\ starts_with(upper(s), i, first)
        /\ LET j == skip_spaces(s, i + Len(first))
           IN starts_with(upper(s), j, second) /\ word_boundary(s, j + Len(second))

\* a guardrail that lets every candidate through
looks_like_po_label_never(s) == FALSE

\* the guardrail of _extract_invoice_by_label:
\* \bPO_NUMBER\b|\bPO\s*NUMBER\b|\bPURCHASE\s*ORDER\b
looks_like_po_label(s) ==
    \/ word_in(s, << "P", "O", "_", "N", "U", "M", "B", "E", "R" >>)
    \/ two_words_in(s, << "P", "O" >>, << "N", "U", "M", "B", "E", "R" >>)
    \/ two_words_in(s, << "P", "U", "R", "C", "H", "A", "S", "E" >>, << "O", "R", "D", "E", "R" >>)

\* candidate.split("\n", 1)[0]
first_line(s) ==
    IF contains(s, "\n")
    THEN SubSeq(s, 1, (CHOOSE i \in 1..Len(s) :
                          s[i] = "\n" /\ \A j \in 1..(i - 1) : s[j] # "\n") - 1)
    ELSE s

\* _find_first: the capture of the first pattern that matches, stripped
RECURSIVE find_first(_)
find_first(captures) ==
    IF captures = << >> THEN None
    ELSE IF Head(captures) # None THEN Some(strip(Head(captures)[1]))
    ELSE find_first(Tail(captures))

\* _extract_invoice_by_label on the captures of its label patterns
RECURSIVE extract_invoice_by_label(_)
extract_invoice_by_label(captures) ==
    IF captures = << >> THEN None
    ELSE IF Head(captures) = None THEN extract_invoice_by_label(Tail(captures))
    ELSE LET candidate == strip(first_line(Head(captures)[1]))
         IN IF looks_like_po_label(candidate)
            THEN extract_invoice_by_label(Tail(captures))
            ELSE LET chunks == split_spaces(candidate)
                     first3 == SubSeq(chunks, 1, IF Len(chunks) < 3 THEN Len(chunks) ELSE 3)
                 IN normalize_id_of_text(Some(join_spaces(first3)))

\* the matches of the token patterns, pattern after pattern
RECURSIVE flatten(_)
flatten(lists) == IF lists = << >> THEN << >> ELSE Head(lists) \o flatten(Tail(lists))

\* _extract_invoice_heuristic on the matches of its token patterns: the
\* normalized candidates of 6 characters or more, the longest first; sort
\* is stable, so of several longest ones the first found is returned
extract_invoice_heuristic(hits) ==
    LET found == flatten(hits)
        normalized == [i \in 1..Len(found) |-> normalize_id_of_text(Some(found[i]))]
        candidates == SelectSeq(normalized, LAMBDA c : c # None /\ Len(c[1]) >= 6)
    IN IF candidates = << >> THEN None
       ELSE candidates[CHOOSE i \in 1..Len(candidates) :
                /\ \A j \in 1..Len(candidates) : Len(candidates[j][1]) <= Len(candidates[i][1])
                /\ \A j \in 1..(i - 1) : Len(candidates[j][1]) < Len(candidates[i][1])]

\* the invoice number of _extract_fields_from_text
invoice_number_of_text(text) ==
    LET inv1 == normalize_id_of_text(find_first(text.strict))
        inv2 == IF inv1 = None THEN extract_invoice_by_label(text.label) ELSE inv1
    IN IF inv2 = None THEN extract_invoice_heuristic(text.tokens) ELSE inv2

\* what the patterns capture in the texts of the model
TextInv001 == << "i", "n", "v", "-", "0", "0", "1" >>
TextInvoice123 == << "I", "N", "V", "O", "I", "C", "E", "-", "1", "2", "3" >>
TextSs01 == << "S", "S", "-", "0", "1" >>
TextPoNumber == << "P", "O", "_", "N", "u", "m", "b", "e", "r" >>
TextA1B2C3D4 == << "A", "1", " ", "B", "2", " ", "C", "3", " ", "D", "4" >>
TextPoNumber25 == << "p", "o", " ", "n", "u", "m", "b", "e", "r", " ", "2", "5" >>
TextPurchaseOrder7 == << "P", "u", "r", "c", "h", "a", "s", "e", " ", "O", "r", "d", "e", "r", " ", "7" >>
TextX77PoNumber == << "X", "-", "7", "7", " ", "P", "O", "_", "N", "U", "M", "B", "E", "R" >>
TextRef9 == << "9", "/", "A", " " >>
TextInv001Ab == << "I", "N", "V", " ", "0", "0", "1", " ", "A", "B" >>
TextFct123 == << "F", "C", "T", " ", "1", "2", "3" >>
TextFct12345 == << "F", "C", "T", "-", "1", "2", "3", "4", "5" >>
TextFa123 == << "F", "A", "1", "2", "3" >>
TextBill20247 == << "B", "I", "L", "L", "-", "2", "0", "2", "4", "-", "7" >>

\* the texts: strict[k], label[k] are what re.search captures for the k-th
\* strict and label pattern, tokens[k] what re.finditer yields for the k-th
\* token pattern.  A text with an INVOICE-prefixed token matches both strict
\* patterns, and a strict token is also a match of the first token pattern.
InvoiceTexts ==
    {t \in [strict : {<< None, None >>, << Some(TextInv001), None >>,
                      << Some(TextInvoice123), Some(TextInvoice123) >>},
            label : {None, Some(TextSs01), Some(TextPoNumber)}
                      \X {None, Some(TextA1B2C3D4), Some(TextPoNumber25),
                          Some(TextPurchaseOrder7), Some(TextX77PoNumber), Some(TextRef9)},
            tokens : {<< >>, << TextInv001Ab >>, << TextInv001 >>, << TextInvoice123 >>}
                       \X {<< >>, << TextFct123 >>, << TextFct123, TextFct12345 >>}
                       \X {<< >>, << TextFa123 >>}
                       \X {<< >>, << TextBill20247 >>}] :
        t.strict[1] # None => t.tokens[1] = << t.strict[1][1] >>}

\* a text is handed to _extract_fields_from_text
InitInvoice ==
    /\ NoRun
    /\ amount_text = << >>
    /\ amount_out = << >>
    /\ pdf_in \in InvoiceTexts
    /\ pdf_out = << >>
    /\ other_run = << >>

\* the invoice number is extracted
ExtractInvoiceNumber ==
    /\ pdf_out = << >>
    /\ pdf_out' = [invoice_number |-> invoice_number_of_text(pdf_in)]
    /\ UNCHANGED << mvars, amount_text, amount_out, pdf_in, other_run >>

NextInvoice == ExtractInvoiceNumber

SpecInvoice == InitInvoice /\ [][NextInvoice]_vars

\* the labeled captures that look like a PO-number label
PoLabelCaptures == {TextPoNumber, TextPoNumber25, TextPurchaseOrder7, TextX77PoNumber}

\* the identifier a capture stands for: upper case, dashes for blanks, at
\* most three chunks of a labeled capture
IdOf(c) ==
    CASE c = TextInv001 -> << "I", "N", "V", "-", "0", "0", "1" >>
      [] c = TextInvoice123 -> << "I", "N", "V", "O", "I", "C", "E", "-", "1", "2", "3" >>
      [] c = TextSs01 -> << "S", "S", "-", "0", "1" >>
      [] c = TextA1B2C3D4 -> << "A", "1", "-", "B", "2", "-", "C", "3" >>
      [] c = TextRef9 -> << "9", "/", "A" >>
      [] c = TextPoNumber -> << "P", "O", "_", "N", "U", "M", "B", "E", "R" >>
      [] c = TextPoNumber25 -> << "P", "O", "-", "N", "U", "M", "B", "E", "R", "-", "2", "5" >>
      [] c = TextPurchaseOrder7 -> << "P", "U", "R", "C", "H", "A", "S", "E", "-", "O", "R", "D", "E", "R", "-", "7" >>
      [] c = TextX77PoNumber -> << "X", "-", "7", "7", "-", "P", "O", "_", "N", "U", "M", "B", "E", "R" >>

\* the label patterns of the text whose capture does not look like a PO label
Labeled(t) == {k \in 1..2 : t.label[k] # None /\ t.label[k][1] \notin PoLabelCaptures}

\* the normalized matches of the token patterns of the text
TokenIds(t) ==
    UNION {{normalize_id_of_text(Some(t.tokens[k][i])) : i \in 1..Len(t.tokens[k])} :
              k \in 1..4} \ {None}

\* C33: the invoice number is the strict token when the text has one; else
\* the capture of the first label pattern whose capture does not look like a
\* PO-number label, cut to three chunks, and never a capture that does;
\* else the longest normalized match of the token scan among those of six
\* characters or more, and None when there is none.
InvoiceNumberByFallbackChain ==
    pdf_out # << >> =>
        LET t == pdf_in
            r == pdf_out.invoice_number
        IN /\ t.strict[1] # None => r = Some(IdOf(t.strict[1][1]))
           /\ (t.strict[1] = None /\ Labeled(t) # {}) =>
                  r = Some(IdOf(t.label[CHOOSE k \in Labeled(t) :
                                           \A j \in Labeled(t) : k <= j][1]))
           /\ t.strict[1] = None => \A c \in PoLabelCaptures : r # Some(IdOf(c))
           /\ (t.strict[1] = None /\ Labeled(t) = {}) =>
                  /\ r = None <=> \A c \in TokenIds(t) : Len(c[1]) < 6
                  /\ r # None =>
                        /\ r \in TokenIds(t)
                        /\ Len(r[1]) >= 6
                        /\ \A c \in TokenIds(t) : Len(c[1]) <= Len(r[1])

\* C33 witness: a text without strict token whose two labeled captures both
\* look like a PO-number label, with token matches FCT 123, FCT-12345 and
\* FA123: the invoice number is FCT-12345.
InvoiceNumberByFallbackChainWitness ==
    /\ pdf_out # << >>
    /\ pdf_in.strict = << None, None >>
    /\ pdf_in.label = << Some(TextPoNumber), Some(TextPurchaseOrder7) >>
    /\ pdf_in.tokens = << << >>, << TextFct123, TextFct12345 >>, << TextFa123 >>, << >> >>
    /\ pdf_out.invoice_number = Some(TextFct12345)

----------------------------------------------------------------------------
(* The amount: the labeled totals of a text.  A text is a sequence of lines,
   each a label (its words) followed by a numeric string; a pattern is the
   word sequences its label part matches right before the number. *)

MaxLines == 2

\* the labels of the model's texts
LabelTotalTtc == << "Total", "TTC" >>
LabelNetAPayer == << "Net", "a", "payer" >>
LabelAmountDue == << "Amount", "Due" >>
LabelTotal == << "Total" >>
LabelTotalAmount == << "Total", "Amount" >>
LabelMontantTtc == << "Montant", "TTC" >>
LabelMontantTotal == << "Montant", "Total" >>
LabelSubtotal == << "Subtotal" >>
LabelSubTotal == << "Sub", "Total" >>
LabelTotalHt == << "Total", "HT" >>

\* amount_patterns, in the order of the list
amount_patterns ==
    << {LabelTotalTtc},
       {LabelNetAPayer, << "Net", "to", "pay" >>, LabelAmountDue},
       {LabelTotal, LabelTotalAmount},
       {LabelMontantTtc, LabelMontantTotal} >>

\* the labels that name the final payable total, with the rank of their
\* pattern, and the labels of subtotals
FinalPayableRank ==
    [l \in {LabelTotalTtc, LabelNetAPayer, LabelAmountDue, LabelTotal, LabelTotalAmount,
            LabelMontantTtc, LabelMontantTotal} |->
        CHOOSE k \in 1..4 : l \in amount_patterns[k]]

SubtotalLabels == {LabelSubtotal, LabelSubTotal, LabelTotalHt}

\* the numeric strings of the lines
LineValues == {100, 119}

TotalsTexts ==
    UNION {[1..n -> [label : DOMAIN FinalPayableRank \cup SubtotalLabels,
                     value : LineValues]] : n \in 1..MaxLines}

\* \b followed by the words of the pattern, right before the number: the
\* words end the label of the line (re.search is not anchored at the start)
ends_with(label, words) ==
    /\ Len(words) <= Len(label)
    /\ SubSeq(label, Len(label) - Len(words) + 1, Len(label)) = words

\* re.search(pat, text): the first line the pattern matches, 0 for no match
search(pat, text) ==
    LET hits == {i \in 1..Len(text) : \E words \in pat : ends_with(text[i].label, words)}
    IN IF hits = {} THEN 0 ELSE CHOOSE i \in hits : \A j \in hits : i <= j

\* the loop over amount_patterns: the first pattern that matches supplies
\* amt_raw = m.group(2); pattern and line are kept beside it
RECURSIVE amt_raw_from(_, _)
amt_raw_from(k, text) ==
    IF k > Len(amount_patterns) THEN [amt_raw |-> None, pattern |-> 0, line |-> 0]
    ELSE LET i == search(amount_patterns[k], text)
         IN IF i # 0 THEN [amt_raw |-> Some(text[i].value), pattern |-> k, line |-> i]
            ELSE amt_raw_from(k + 1, text)

InitTotals ==
    /\ NoRun
    /\ amount_text \in TotalsTexts
    /\ amount_out = << >>
    /\ pdf_in = << >>
    /\ pdf_out = << >>
    /\ other_run = << >>

\* the amount is looked for in the text
FindAmount ==
    /\ amount_out = << >>
    /\ amount_out' = amt_raw_from(1, amount_text)
    /\ UNCHANGED << mvars, amount_text, pdf_in, pdf_out, other_run >>

NextTotals == FindAmount

SpecTotals == InitTotals /\ [][NextTotals]_vars

\* the lines of the text with a final-payable label
FinalPayableLines ==
    {i \in 1..Len(amount_text) : amount_text[i].label \in DOMAIN FinalPayableRank}

\* C34: when the text holds a final-payable label, the amount is the number
\* of a line with such a label, and no line of the text has a final-payable
\* label of higher priority: a subtotal or a lower-priority label is never
\* chosen.
FinalPayableTotalPreferred ==
    (amount_out # << >> /\ FinalPayableLines # {}) =>
        /\ amount_out.line \in FinalPayableLines
        /\ \A i \in FinalPayableLines :
              FinalPayableRank[amount_text[i].label]
                  >= FinalPayableRank[amount_text[amount_out.line].label]

\* C34, the part that holds: the first pattern of the list that matches
\* anywhere supplies the amount, from its first match; a Total TTC line is
\* chosen whenever there is one, and otherwise a Net a payer or Amount Due
\* line whenever there is one.
FirstMatchingPatternSupplies ==
    amount_out # << >> =>
        /\ \A k \in 1..4 :
              (search(amount_patterns[k], amount_text) # 0
                 /\ \A j \in 1..(k - 1) : search(amount_patterns[j], amount_text) = 0) =>
                  /\ amount_out.pattern = k
                  /\ amount_out.line = search(amount_patterns[k], amount_text)
        /\ \A i \in FinalPayableLines :
              FinalPayableRank[amount_text[i].label] <= 2 =>
                  /\ amount_out.line \in FinalPayableLines
                  /\ FinalPayableRank[amount_text[amount_out.line].label]
                         <= FinalPayableRank[amount_text[i].label]

====
